---- MODULE Spec2Model ----
(***************************************************************************)
(* A model of the tinyML accelerator toolchain: the hardware-exact         *)
(* requantizer, the golden model (ISA simulator), the assembler and        *)
(* disassembler, the topological sort and the memory image builder.        *)
(*                                                                         *)
(* Each subsystem has its own specification over the shared variables:     *)
(*   SpecQuant  the requantizer as a pure function of (x_int32, max_abs)   *)
(*   SpecSort   topological_sort, one loop iteration per step               *)
(*   Spec       execute_program on a memory image, one instruction per step *)
(*   SpecAsm    assemble_line followed by decode_instruction                *)
(*   SpecBuild  generate_dram_for_input, one call of the pipeline per step  *)
(*   SpecCompile  generate_assembly on a model file, in one step            *)
(*   SpecRerun  execute_program called twice on the same image             *)
(***************************************************************************)
EXTENDS Integers, Sequences, FiniteSets, TLC

VARIABLES
    pc,          \* position of the subsystem under check
    x_int32,     \* requantizer: the int32 accumulator vector
    max_abs,     \* requantizer: the max_abs argument
    q_result,    \* requantizer: the returned int8 vector
    graph,       \* graph.node: the nodes of the model graph, in file order
    indegree,    \* topological sort: node index -> unscheduled producers
    deps,        \* topological sort: node index -> consumers, in append order
    queue,       \* topological sort: the deque of ready nodes
    ordered,     \* topological sort: the schedule built so far
    cfg,         \* AcceleratorConfig: the architectural constants in force
    hex_file,    \* the hex image file: one line of two hex digits per byte
    instructions,\* golden model: the instruction words read from the file
    ip,          \* golden model: index of the next word of the for-loop
    memory,      \* golden model: the int8 memory array
    buffers,     \* golden model: buffer id -> buffer contents
    output_buffer, \* golden model: the source of the last STORE
    returned,    \* golden model: the value execute_program returned
    asm_line,    \* assembler: the assembly line, [instr, args]
    encoded,     \* assembler: the hex digits assemble_line returned
    decoded,     \* disassembler: what decode_instruction returned
    model,       \* build: the ONNX model [node, initializer, output, shape_map]
    dram,        \* build: dram.py's global array
    weight_ptr,  \* build: save_initializers_to_dram's weight cursor
    bias_ptr,    \* build: save_initializers_to_dram's bias cursor
    weight_map,  \* build: weight name -> address
    bias_map,    \* build: bias name -> address
    asm_instructions, \* build: the lines generate_assembly wrote
    program_hex, \* build: the lines assemble_file wrote to program.hex
    dram_hex,    \* build: the lines save_dram_to_file wrote
    first_run    \* caller: outcome of an earlier execute_program call

quantVars == <<x_int32, max_abs, q_result>>
sortVars == <<graph, indegree, deps, queue, ordered>>
goldVars == <<cfg, hex_file, instructions, ip, memory, buffers, output_buffer,
              returned>>
asmVars == <<asm_line, encoded, decoded>>
buildVars == <<model, dram, weight_ptr, bias_ptr, weight_map, bias_map,
               asm_instructions, program_hex, dram_hex>>
callerVars == <<first_run>>
vars == <<pc, quantVars, sortVars, goldVars, asmVars, buildVars, callerVars>>

notQuant == <<sortVars, goldVars, asmVars, buildVars, callerVars>>
notSort == <<quantVars, goldVars, asmVars, buildVars, callerVars>>
notGold == <<quantVars, sortVars, asmVars, buildVars, callerVars>>
notAsm == <<quantVars, sortVars, goldVars, buildVars, callerVars>>
notBuild == <<quantVars, sortVars, goldVars, asmVars, callerVars>>

(***************************************************************************)
(* Arithmetic helpers.  TLC integers are 32 bits wide, so the signed       *)
(* 64-bit product of the requantizer is kept as a pair [hi, lo] with       *)
(* value hi * 2^24 + lo and 0 <= lo < 2^24.                                *)
(***************************************************************************)
Abs(v) == IF v < 0 THEN -v ELSE v

Clip(v, lo, hi) == IF v < lo THEN lo ELSE IF v > hi THEN hi ELSE v

RECURSIVE SeqMax(_)
SeqMax(s) == IF Len(s) = 1 THEN s[1]
             ELSE LET m == SeqMax(Tail(s)) IN IF s[1] > m THEN s[1] ELSE m

Limb12(r, k) == (r \div (2^(12 * k))) % (2^12)

\* x * r for |x| <= 2^16 and 0 <= r < 2^31, as [hi, lo]
MulSmall(x, r) ==
    LET p0 == x * Limb12(r, 0)
        p1 == x * Limb12(r, 1)
        p2 == x * Limb12(r, 2)
        s  == (p1 % (2^12)) * (2^12) + p0
    IN  [hi |-> p2 + (p1 \div (2^12)) + (s \div (2^24)), lo |-> s % (2^24)]

\* x.astype(int64) * reciprocal_scale: the signed 64-bit product as [hi, lo]
Mul64(a, r) ==
    LET A == MulSmall(a \div (2^16), r)
        B == MulSmall(a % (2^16), r)
        s == (A.lo % (2^8)) * (2^16) + B.lo
    IN  [hi |-> A.hi * (2^16) + (A.lo \div (2^8)) + B.hi + (s \div (2^24)),
         lo |-> s % (2^24)]

(***************************************************************************)
(* quantize_int32_to_int8_rtl_exact                                        *)
(***************************************************************************)
DATA_WIDTH == 8

\* max_val << 24 with max_val = (1 << (DATA_WIDTH - 1)) - 1
Divider == ((2^(DATA_WIDTH - 1)) - 1) * (2^24)

ReciprocalScaleCeil(m) == (Divider + m - 1) \div m

\* half the reciprocal
ReciprocalScaleHalved(m) == (Divider \div m) \div 2

ReciprocalScale(m) == Divider \div m

Products(a, r) == Mul64(a, r)

RoundedNoBias(p) == p.hi

\* (products + (1 << 23)) >> 24, an arithmetic shift of the 64-bit value
Rounded(p) == p.hi + ((p.lo + 2^23) \div (2^24))

Clipped(v) == Clip(v, -128, 127)

QuantizeRtlExact(x, m) ==
    IF m = 0
    THEN [i \in 1..Len(x) |-> 0]
    ELSE LET r == ReciprocalScale(m)
         IN  [i \in 1..Len(x) |-> Clipped(Rounded(Products(x[i], r)))]

(***************************************************************************)
(* Values of the variables a specification does not use.                   *)
(***************************************************************************)
IdleQuant == x_int32 = <<>> /\ max_abs = 0 /\ q_result = <<>>

IdleSort ==
    /\ graph = <<>>
    /\ indegree = <<>>
    /\ deps = <<>>
    /\ queue = <<>>
    /\ ordered = <<>>

IdleGold ==
    /\ cfg = <<>>
    /\ hex_file = <<>>
    /\ instructions = <<>>
    /\ ip = 0
    /\ memory = <<>>
    /\ buffers = <<>>
    /\ output_buffer = 0
    /\ returned = <<>>

IdleCaller == first_run = <<>>

IdleAsm == asm_line = <<>> /\ encoded = <<>> /\ decoded = <<>>

IdleBuild ==
    /\ model = <<>>
    /\ dram = <<>>
    /\ weight_ptr = 0
    /\ bias_ptr = 0
    /\ weight_map = <<>>
    /\ bias_map = <<>>
    /\ asm_instructions = <<>>
    /\ program_hex = <<>>
    /\ dram_hex = <<>>

(***************************************************************************)
(* SpecQuant: the requantizer applied to bounded inputs.                   *)
(***************************************************************************)
MaxVecLen == 2

AccValues == {-239194, -4952, -129, -44, -1, 0, 1, 11, 22, 33, 44, 127, 128,
              4952, 147731, 239194}

MaxAbsValues == {0, 1, 2, 44, 127, 128, 4952, 239194, 2147483647}

AccVectors == UNION {[1..n -> AccValues] : n \in 1..MaxVecLen}

\* a maximum above 2^23 with the vectors that reach it
LargeMaxAbs == 2^24 + 1

LargeVectors ==
    {<<LargeMaxAbs>>, <<-LargeMaxAbs>>, <<LargeMaxAbs, -LargeMaxAbs>>}

InitQuant ==
    /\ pc = "quant_call"
    /\ IdleCaller
    /\ \/ x_int32 \in AccVectors /\ max_abs \in MaxAbsValues
       \/ x_int32 \in LargeVectors /\ max_abs = LargeMaxAbs
    /\ q_result = <<>>
    /\ IdleSort
    /\ IdleGold
    /\ IdleAsm
    /\ IdleBuild

Quantize ==
    /\ pc = "quant_call"
    /\ q_result' = QuantizeRtlExact(x_int32, max_abs)
    /\ pc' = "quant_done"
    /\ UNCHANGED <<x_int32, max_abs, notQuant>>

NextQuant == Quantize

SpecQuant == InitQuant /\ [][NextQuant]_vars

(***************************************************************************)
(* C1: for every accumulator vector and every max_abs > 0 the requantizer  *)
(* returns, element by element, clip(((a * r) + 2^23) >> 24, -128, 127)    *)
(* with r = (127 * 2^24) div max_abs; for max_abs = 0 it returns zeros of  *)
(* the same length.  The right-hand side is evaluated limb by limb over    *)
(* the 12-bit digits of r, independently of Mul64.                         *)
(***************************************************************************)
ClaimShift(a, r) ==
    LET r0 == r % 4096
        r1 == (r \div 4096) % 4096
        r2 == r \div (4096 * 4096)
    IN  a * r2 + ((a * r1 + ((a * r0 + 2^23) \div 4096)) \div 4096)

ClaimRequant(a, m) ==
    LET r == (127 * (2^24)) \div m
        q == ClaimShift(a, r)
    IN  IF q < -128 THEN -128 ELSE IF q > 127 THEN 127 ELSE q

C1_Requantization ==
    pc = "quant_done" =>
        /\ Len(q_result) = Len(x_int32)
        /\ \A i \in 1..Len(x_int32) :
              q_result[i] = IF max_abs = 0 THEN 0
                            ELSE ClaimRequant(x_int32[i], max_abs)

\* a saturating element and a rounded-up element have been requantized
C1_Witness ==
    /\ pc = "quant_done"
    /\ max_abs = 44
    /\ x_int32 = <<128, 11>>
    /\ q_result = <<127, 32>>

(***************************************************************************)
(* topological_sort (Kahn's algorithm over graph.node).  A node is a       *)
(* record [op_type, input, output]; nodes are identified by their index in *)
(* graph.node, which stands for id(node).                                  *)
(***************************************************************************)
Produces(g, k, t) == \E o \in 1..Len(g[k].output) : g[k].output[o] = t

HasProducer(g, t) == \E k \in 1..Len(g) : Produces(g, k, t)

\* tensor_producer[t]: the loop overwrites, so the last producer wins
TensorProducer(g, t) ==
    CHOOSE k \in 1..Len(g) :
        /\ Produces(g, k, t)
        /\ \A j \in 1..Len(g) : Produces(g, j, t) => j <= k

\* the inputs of node n, in order, that have a producer
RECURSIVE ParentsOf(_, _, _)
ParentsOf(g, n, i) ==
    IF i > Len(g[n].input) THEN <<>>
    ELSE (IF HasProducer(g, g[n].input[i])
          THEN <<TensorProducer(g, g[n].input[i])>> ELSE <<>>)
         \o ParentsOf(g, n, i + 1)

RECURSIVE CountOf(_, _)
CountOf(s, v) ==
    IF s = <<>> THEN 0
    ELSE (IF Head(s) = v THEN 1 ELSE 0) + CountOf(Tail(s), v)

RECURSIVE Repeat(_, _)
Repeat(v, n) == IF n = 0 THEN <<>> ELSE <<v>> \o Repeat(v, n - 1)

\* deps[id(p)]: node n is appended once per input of n that p produces
RECURSIVE DepsOf(_, _, _)
DepsOf(g, p, n) ==
    IF n > Len(g) THEN <<>>
    ELSE Repeat(n, CountOf(ParentsOf(g, n, 1), p)) \o DepsOf(g, p, n + 1)

InitialIndegree(g) == [n \in 1..Len(g) |-> Len(ParentsOf(g, n, 1))]

RECURSIVE InitialQueue(_, _, _)
InitialQueue(g, indeg, n) ==
    IF n > Len(g) THEN <<>>
    ELSE (IF indeg[n] = 0 THEN <<n>> ELSE <<>>) \o InitialQueue(g, indeg, n + 1)

ReadyAlways(d) == TRUE

\* if indegree[id(child)] == 0: queue.append(child)
Ready(d) == d = 0

\* the for-loop over deps[id(node)]: [indegree, queue] after the children in cs
RECURSIVE ReleaseChildren(_, _, _)
ReleaseChildren(cs, indeg, q) ==
    IF cs = <<>> THEN [indegree |-> indeg, queue |-> q]
    ELSE LET c  == Head(cs)
             d  == indeg[c] - 1
         IN  ReleaseChildren(Tail(cs), [indeg EXCEPT ![c] = d],
                             IF Ready(d) THEN Append(q, c) ELSE q)

\* the while-loop, run to the end: the list `ordered`
RECURSIVE SortLoop(_, _, _, _)
SortLoop(dp, indeg, q, ord) ==
    IF q = <<>> THEN ord
    ELSE LET r == ReleaseChildren(dp[Head(q)], indeg, Tail(q))
         IN  SortLoop(dp, r.indegree, r.queue, Append(ord, Head(q)))

TopologicalSort(g) ==
    SortLoop([p \in 1..Len(g) |-> DepsOf(g, p, 1)], InitialIndegree(g),
             InitialQueue(g, InitialIndegree(g), 1), <<>>)

SortBuild ==
    /\ pc = "sort_call"
    /\ indegree' = InitialIndegree(graph)
    /\ deps' = [p \in 1..Len(graph) |-> DepsOf(graph, p, 1)]
    /\ queue' = InitialQueue(graph, InitialIndegree(graph), 1)
    /\ ordered' = <<>>
    /\ pc' = "sort_loop"
    /\ UNCHANGED <<graph, notSort>>

SortStep ==
    /\ pc = "sort_loop"
    /\ queue # <<>>
    /\ LET node == Head(queue)
           r    == ReleaseChildren(deps[node], indegree, Tail(queue))
       IN  /\ ordered' = Append(ordered, node)
           /\ indegree' = r.indegree
           /\ queue' = r.queue
    /\ UNCHANGED <<pc, graph, deps, notSort>>

\* a cycle only prints a warning: the partial order is returned
SortReturn ==
    /\ pc = "sort_loop"
    /\ queue = <<>>
    /\ pc' = "sort_done"
    /\ UNCHANGED <<sortVars, notSort>>

(***************************************************************************)
(* SpecSort: topological_sort on every graph of up to MaxNodes nodes in    *)
(* which node k produces tensor k (each tensor has at most one producer)   *)
(* and consumes up to two tensors; tensor 0 is a graph input.  The order   *)
(* of a node's inputs does not reach the result, so inputs are drawn in    *)
(* nondecreasing order.                                                    *)
(***************************************************************************)
MaxNodes == 3

InputLists(n) ==
    {<<>>} \cup {<<a>> : a \in 0..n}
           \cup {s \in [1..2 -> 0..n] : s[1] <= s[2]}

SortGraph(n, ins) ==
    [k \in 1..n |-> [op_type |-> "Gemm", input |-> ins[k], output |-> <<k>>]]

InitSort ==
    /\ pc = "sort_call"
    /\ IdleCaller
    /\ \E n \in 1..MaxNodes :
          \E ins \in [1..n -> InputLists(n)] : graph = SortGraph(n, ins)
    /\ indegree = <<>>
    /\ deps = <<>>
    /\ queue = <<>>
    /\ ordered = <<>>
    /\ IdleQuant
    /\ IdleGold
    /\ IdleAsm
    /\ IdleBuild

NextSort == SortBuild \/ SortStep \/ SortReturn

SpecSort == InitSort /\ [][NextSort]_vars

\* the producer relation: node p produces an input of node c
Feeds(g, p, c) == \E i \in 1..Len(g[c].input) : Produces(g, p, g[c].input[i])

\* the nodes reachable from the nodes of S along Feeds, in up to k steps
RECURSIVE Descendants(_, _, _)
Descendants(g, S, k) ==
    IF k = 0 THEN {}
    ELSE LET N == {c \in 1..Len(g) : \E p \in S : Feeds(g, p, c)}
         IN  N \cup Descendants(g, N, k - 1)

Acyclic(g) == \A n \in 1..Len(g) : n \notin Descendants(g, {n}, Len(g))

PositionIn(s, v) == CHOOSE i \in 1..Len(s) : s[i] = v

(***************************************************************************)
(* C10: for every acyclic graph the returned schedule holds every node     *)
(* exactly once, and every consumer after each producer of its inputs.     *)
(***************************************************************************)
C10_TopologicalOrder ==
    (pc = "sort_done" /\ Acyclic(graph)) =>
        /\ Len(ordered) = Len(graph)
        /\ \A n \in 1..Len(graph) : CountOf(ordered, n) = 1
        /\ \A p, c \in 1..Len(graph) :
              Feeds(graph, p, c) => PositionIn(ordered, p) < PositionIn(ordered, c)

\* a graph given in reverse dependency order (3 feeds 2 feeds 1) was sorted
C10_Witness ==
    /\ pc = "sort_done"
    /\ Len(graph) = 3
    /\ graph[1].input = <<2>>
    /\ graph[2].input = <<3>>
    /\ graph[3].input = <<0>>
    /\ ordered = <<3, 2, 1>>

(***************************************************************************)
(* Instruction words.  A word is the sequence of its hex digits, most      *)
(* significant first: what the assembler prints with {word:016X} and what  *)
(* the golden model joins from eight lines of the hex file.                *)
(***************************************************************************)
RECURSIVE SumTo(_, _)
\* the sum of f[0] .. f[n-1]
SumTo(f, n) == IF n = 0 THEN 0 ELSE f[n - 1] + SumTo(f, n - 1)

\* bit k of int(w, 16)
HexBit(w, k) ==
    LET d == Len(w) - (k \div 4)
    IN  IF d < 1 THEN 0 ELSE (w[d] \div (2^(k % 4))) % 2

\* (int(w, 16) >> shift) & (2^n - 1)
Field(w, shift, n) == SumTo([i \in 0..(n - 1) |-> HexBit(w, shift + i) * (2^i)], n)

\* bit k of the bitwise OR of val << shift over the fields (val < 2^31)
OrBit(fields, k) ==
    IF \E f \in fields : /\ k >= f.shift
                         /\ k - f.shift < 31
                         /\ (f.val \div (2^(k - f.shift))) % 2 = 1
    THEN 1 ELSE 0

\* the 16 hex digits of the OR of the shifted fields (a value below 2^64)
WordHex(fields) ==
    [d \in 1..16 |->
        SumTo([b \in 0..3 |-> OrBit(fields, 4 * (16 - d) + b) * (2^b)], 4)]

(***************************************************************************)
(* The hex image file (dram.save_dram_to_file, golden_model.load_memory).  *)
(***************************************************************************)
\* the two digits of the magnitude of the byte
HexLineSigned(byte) == <<Abs(byte) \div 16, Abs(byte) % 16>>

\* f"{np.uint8(byte):02X}": the two digits of the byte viewed as unsigned
HexLine(byte) == <<(byte % 256) \div 16, (byte % 256) % 16>>

\* np.int8(np.uint8(int(line, 16)))
ParseLine(line) ==
    LET val == 16 * line[1] + line[2]
    IN  IF val >= 128 THEN val - 256 ELSE val

\* one line per byte of the array (addressed from 0), in address order
SaveDramToFile(d) == [n \in 1..Cardinality(DOMAIN d) |-> HexLine(d[n - 1])]

\* the file read back as an int8 array, addressed from 0
LoadMemory(file) == [a \in 0..(Len(file) - 1) |-> ParseLine(file[a + 1])]

(***************************************************************************)
(* The golden model's buffers.  LOAD_V and LOAD_M store a numpy slice,     *)
(* which is a view of the memory array: [view, addr, len]; GEMV and RELU   *)
(* store a new array or list: [data].                                      *)
(***************************************************************************)
Min(a, b) == IF a < b THEN a ELSE b

\* memory[addr:addr + length]: the slice is clamped to the array
SliceOf(mem_size, addr, length) ==
    LET start == Min(addr, mem_size)
        stop  == Min(addr + length, mem_size)
    IN  [view |-> TRUE, addr |-> start, len |-> stop - start]

DataBuf(seq) == [view |-> FALSE, data |-> seq]

BufLen(b) == IF b.view THEN b.len ELSE Len(b.data)

\* element k (from 0) of a buffer, read now
BufAt(b, mem, k) == IF b.view THEN mem[b.addr + k] ELSE b.data[k + 1]

BufSeq(b, mem) == [k \in 1..BufLen(b) |-> BufAt(b, mem, k - 1)]

\* buffers[id][k] raises KeyError or IndexError unless this holds
Readable(bufs, id, k) == id \in DOMAIN bufs /\ k < BufLen(bufs[id])

PutBuf(bufs, id, b) == (id :> b) @@ bufs

(***************************************************************************)
(* load_v, load_m, store, gemv, relu                                       *)
(***************************************************************************)
LoadV(bufs, mem_size, dest, addr, length) ==
    PutBuf(bufs, dest, SliceOf(mem_size, addr, length))


\* memory[addr:addr + rows * cols]: the length does not use the padded stride
LoadMLength(tile, rows, cols) == rows * cols

LoadM(bufs, mem_size, tile, dest, addr, rows, cols) ==
    PutBuf(bufs, dest, SliceOf(mem_size, addr, LoadMLength(tile, rows, cols)))

\* the for-loop of store: [ok, memory] after the copies from index i on
RECURSIVE StoreLoop(_, _, _, _, _, _)
StoreLoop(bufs, mem, buf_id, addr, length, i) ==
    IF i >= length THEN [ok |-> TRUE, memory |-> mem]
    ELSE IF ~Readable(bufs, buf_id, i) \/ addr + i \notin DOMAIN mem
         THEN [ok |-> FALSE, memory |-> mem]
         ELSE StoreLoop(bufs,
                        [mem EXCEPT ![addr + i] = BufAt(bufs[buf_id], mem, i)],
                        buf_id, addr, length, i + 1)

Stride(tile, cols) == ((cols + tile - 1) \div tile) * tile

\* the inner loop of gemv over j: [ok, sum]
RECURSIVE GemvDot(_, _, _, _, _, _, _, _)
GemvDot(bufs, mem, w, x, i, stride, cols, j) ==
    IF j >= cols THEN [ok |-> TRUE, sum |-> 0]
    ELSE IF ~Readable(bufs, w, i * stride + j) \/ ~Readable(bufs, x, j)
         THEN [ok |-> FALSE, sum |-> 0]
         ELSE LET rest == GemvDot(bufs, mem, w, x, i, stride, cols, j + 1)
              IN  [ok  |-> rest.ok,
                   sum |-> BufAt(bufs[w], mem, i * stride + j)
                             * BufAt(bufs[x], mem, j) + rest.sum]

\* the outer loop of gemv from row i on: [ok, buffers]; buffers[dest] is the
\* list being filled, which the reads see when dest is also an operand
RECURSIVE GemvRows(_, _, _, _, _, _, _, _, _)
GemvRows(bufs, mem, dest, w, x, b, rows, cols, i) ==
    IF i >= rows THEN [ok |-> TRUE, buffers |-> bufs]
    ELSE LET dot == GemvDot(bufs, mem, w, x, i, Stride(cfg.TILE_ELEMS, cols), cols, 0)
         IN  IF ~dot.ok \/ ~Readable(bufs, b, i)
             THEN [ok |-> FALSE, buffers |-> bufs]
             ELSE LET sum == dot.sum + BufAt(bufs[b], mem, i)
                      d   == [bufs[dest].data EXCEPT ![i + 1] = sum]
                  IN  GemvRows(PutBuf(bufs, dest, DataBuf(d)), mem,
                               dest, w, x, b, rows, cols, i + 1)

\* np.max(np.abs(acc)) of a non-empty accumulator list
MaxAbs(acc) == SeqMax([i \in 1..Len(acc) |-> Abs(acc[i])])

\* gemv: [ok, buffers]; an empty accumulator makes np.max raise
Gemv(bufs, mem, dest, w, x, b, rows, cols) ==
    LET zeroed == PutBuf(bufs, dest, DataBuf([i \in 1..rows |-> 0]))
        r      == GemvRows(zeroed, mem, dest, w, x, b, rows, cols, 0)
    IN  IF ~r.ok \/ rows = 0 THEN [ok |-> FALSE, buffers |-> r.buffers]
        ELSE LET acc == r.buffers[dest].data
             IN  [ok |-> TRUE,
                  buffers |-> PutBuf(r.buffers, dest,
                                     DataBuf(QuantizeRtlExact(acc, MaxAbs(acc))))]

\* the slice without the rectification
ReluListIdentity(b, mem, length) ==
    [k \in 1..Min(length, BufLen(b)) |-> BufAt(b, mem, k - 1)]

\* [max(0, val) for val in buffers[x][:length]]
ReluList(b, mem, length) ==
    [k \in 1..Min(length, BufLen(b)) |->
        IF BufAt(b, mem, k - 1) < 0 THEN 0 ELSE BufAt(b, mem, k - 1)]

(***************************************************************************)
(* i_decoder: the operands of a word, by opcode                            *)
(***************************************************************************)
Opcode(w) == Field(w, 0, 5)

DecodeLoadV(w) ==
    [dest |-> Field(w, 5, 5), len |-> Field(w, 10, 18), addr |-> Field(w, 40, 24)]

DecodeLoadM(w) ==
    [dest |-> Field(w, 5, 5), cols |-> Field(w, 10, 10), rows |-> Field(w, 20, 10),
     addr |-> Field(w, 40, 24)]

DecodeStore(w) ==
    [buf_id |-> Field(w, 5, 5), len |-> Field(w, 10, 18), addr |-> Field(w, 40, 24)]

DecodeGemv(w) ==
    [dest |-> Field(w, 5, 5), cols |-> Field(w, 10, 10), rows |-> Field(w, 20, 10),
     b |-> Field(w, 30, 5), x |-> Field(w, 35, 5), w |-> Field(w, 40, 5)]

DecodeRelu(w) ==
    [dest |-> Field(w, 5, 5), x |-> Field(w, 10, 5), length |-> Field(w, 20, 10)]

(***************************************************************************)
(* execute_program                                                         *)
(***************************************************************************)
\* the first DRAM_ADDR_INPUTS lines of the file, joined eight at a time
InstructionWords(file, n_lines) ==
    LET n == Min(n_lines, Len(file))
    IN  [k \in 1..((n + 7) \div 8) |->
            LET last == Min(8 * k, n)
            IN  [d \in 1..(2 * (last - 8 * (k - 1))) |->
                    file[8 * (k - 1) + ((d + 1) \div 2)][2 - (d % 2)]]]

\* the for-loop stops only when the list of words is exhausted
LoopRuns(i, words) == i <= Len(words)

\* a call that keeps the memory array of the call before it
ExecuteProgramKeepsMemory ==
    /\ pc = "exec_call"
    /\ buffers' = <<>>
    /\ output_buffer' = 0
    /\ instructions' = InstructionWords(hex_file, cfg.DRAM_ADDR_INPUTS)
    /\ memory' = IF memory = <<>> THEN LoadMemory(hex_file) ELSE memory
    /\ ip' = 1
    /\ pc' = "exec_loop"
    /\ UNCHANGED <<cfg, hex_file, returned, notGold>>

ExecuteProgram ==
    /\ pc = "exec_call"
    /\ buffers' = <<>>
    /\ output_buffer' = 0
    /\ instructions' = InstructionWords(hex_file, cfg.DRAM_ADDR_INPUTS)
    /\ memory' = LoadMemory(hex_file)
    /\ ip' = 1
    /\ pc' = "exec_loop"
    /\ UNCHANGED <<cfg, hex_file, returned, notGold>>

Fetching(op) ==
    /\ pc = "exec_loop"
    /\ LoopRuns(ip, instructions)
    /\ Opcode(instructions[ip]) = op

ExecLoadV ==
    /\ Fetching(1)
    /\ LET f == DecodeLoadV(instructions[ip])
       IN  buffers' = LoadV(buffers, Len(hex_file), f.dest, f.addr, f.len)
    /\ ip' = ip + 1
    /\ UNCHANGED <<pc, cfg, hex_file, instructions, memory, output_buffer,
                   returned, notGold>>

ExecLoadM ==
    /\ Fetching(2)
    /\ LET f == DecodeLoadM(instructions[ip])
       IN  buffers' = LoadM(buffers, Len(hex_file), cfg.TILE_ELEMS,
                            f.dest, f.addr, f.rows, f.cols)
    /\ ip' = ip + 1
    /\ UNCHANGED <<pc, cfg, hex_file, instructions, memory, output_buffer,
                   returned, notGold>>

ExecStore ==
    /\ Fetching(3)
    /\ LET f == DecodeStore(instructions[ip])
           r == StoreLoop(buffers, memory, f.buf_id, f.addr, f.len, 0)
       IN  /\ memory' = r.memory
           /\ output_buffer' = IF r.ok THEN f.buf_id ELSE output_buffer
           /\ pc' = IF r.ok THEN "exec_loop" ELSE "exec_raised"
    /\ ip' = ip + 1
    /\ UNCHANGED <<cfg, hex_file, instructions, buffers, returned, notGold>>

ExecGemv ==
    /\ Fetching(4)
    /\ LET f == DecodeGemv(instructions[ip])
           r == Gemv(buffers, memory, f.dest, f.w, f.x, f.b, f.rows, f.cols)
       IN  /\ buffers' = r.buffers
           /\ pc' = IF r.ok THEN "exec_loop" ELSE "exec_raised"
    /\ ip' = ip + 1
    /\ UNCHANGED <<cfg, hex_file, instructions, memory, output_buffer,
                   returned, notGold>>

ExecRelu ==
    /\ Fetching(5)
    /\ LET f == DecodeRelu(instructions[ip])
       IN  IF f.x \in DOMAIN buffers
           THEN /\ buffers' = PutBuf(buffers, f.dest,
                                     DataBuf(ReluList(buffers[f.x], memory, f.length)))
                /\ pc' = "exec_loop"
           ELSE /\ buffers' = buffers
                /\ pc' = "exec_raised"
    /\ ip' = ip + 1
    /\ UNCHANGED <<cfg, hex_file, instructions, memory, output_buffer,
                   returned, notGold>>

\* an undefined opcode treated as fatal
ExecUnknownFatal ==
    /\ pc = "exec_loop"
    /\ LoopRuns(ip, instructions)
    /\ Opcode(instructions[ip]) \notin 1..5
    /\ pc' = "exec_raised"
    /\ UNCHANGED <<cfg, hex_file, instructions, ip, memory, buffers,
                   output_buffer, returned, notGold>>

\* any other opcode, the zero word included: i_decoder returns a string
\* that the loop ignores
ExecUnknown ==
    /\ pc = "exec_loop"
    /\ LoopRuns(ip, instructions)
    /\ Opcode(instructions[ip]) \notin 1..5
    /\ ip' = ip + 1
    /\ UNCHANGED <<pc, cfg, hex_file, instructions, memory, buffers,
                   output_buffer, returned, notGold>>

\* return buffers[output_buffer][0:output_length]
ExecReturn ==
    /\ pc = "exec_loop"
    /\ ~LoopRuns(ip, instructions)
    /\ IF output_buffer \in DOMAIN buffers
       THEN /\ returned' = LET b == BufSeq(buffers[output_buffer], memory)
                           IN  SubSeq(b, 1, Min(cfg.OUT_N, Len(b)))
            /\ pc' = "exec_done"
       ELSE /\ returned' = returned
            /\ pc' = "exec_raised"
    /\ UNCHANGED <<cfg, hex_file, instructions, ip, memory, buffers,
                   output_buffer, notGold>>

(***************************************************************************)
(* Spec: execute_program on bounded hex images.  The configuration is that *)
(* of the identity-GEMV scenario (tile of 4 elements, regions at 64, 128,  *)
(* 192 and 256) with a small memory.  An image holds a program of six      *)
(* words, an input vector, a bias vector and a weight block; three more    *)
(* images hold the program of NOP words, the RELU example and a STORE      *)
(* into the slice of memory it reads.                                      *)
(***************************************************************************)
ScenarioConfig ==
    [TILE_ELEMS |-> 4, MEM_SIZE |-> 288, OUT_N |-> 3,
     DRAM_ADDR_INPUTS |-> 64, DRAM_ADDR_BIASES |-> 128,
     DRAM_ADDR_OUTPUTS |-> 192, DRAM_ADDR_WEIGHTS |-> 256]

\* words laid out as i_decoder reads them
WordLoadV(dest, addr, len) ==
    WordHex({[shift |-> 0, val |-> 1], [shift |-> 5, val |-> dest],
             [shift |-> 10, val |-> len], [shift |-> 40, val |-> addr]})

WordLoadM(dest, addr, rows, cols) ==
    WordHex({[shift |-> 0, val |-> 2], [shift |-> 5, val |-> dest],
             [shift |-> 10, val |-> cols], [shift |-> 20, val |-> rows],
             [shift |-> 40, val |-> addr]})

WordStore(buf_id, addr, len) ==
    WordHex({[shift |-> 0, val |-> 3], [shift |-> 5, val |-> buf_id],
             [shift |-> 10, val |-> len], [shift |-> 40, val |-> addr]})

WordGemv(dest, w, x, b, rows, cols) ==
    WordHex({[shift |-> 0, val |-> 4], [shift |-> 5, val |-> dest],
             [shift |-> 10, val |-> cols], [shift |-> 20, val |-> rows],
             [shift |-> 30, val |-> b], [shift |-> 35, val |-> x],
             [shift |-> 40, val |-> w]})

WordRelu(dest, x, length) ==
    WordHex({[shift |-> 0, val |-> 5], [shift |-> 5, val |-> dest],
             [shift |-> 10, val |-> x], [shift |-> 20, val |-> length]})

WordZero == [d \in 1..16 |-> 0]

\* an undefined opcode (9) with operand bits set
WordReserved == WordHex({[shift |-> 0, val |-> 9], [shift |-> 5, val |-> 5],
                         [shift |-> 10, val |-> 4], [shift |-> 40, val |-> 192]})

Slot1 == {WordLoadV(9, 64, 4), WordZero}

Slot2 == {WordLoadM(1, 256, 4, 4), WordLoadM(1, 256, 2, 3), WordLoadM(1, 256, 2, 4)}

Slot3 == {WordLoadV(3, 128, 4), WordReserved}

Slot4 == {WordGemv(5, 1, 9, 3, 4, 4), WordGemv(5, 1, 9, 3, 2, 3),
          WordGemv(3, 1, 9, 3, 4, 4), WordGemv(9, 1, 9, 3, 4, 4),
          WordRelu(5, 9, 3)}

Slot5 == {WordStore(5, 192, 4), WordZero, WordRelu(7, 5, 4), WordStore(5, 64, 2)}

Slot6 == {WordZero, WordStore(7, 192, 4), WordStore(5, 194, 2), WordStore(9, 192, 4)}

InputChoices == {<<1, 2, 3, 4>>, <<-3, 5, 0, -128>>}

BiasChoices == {<<10, 20, 30, 40>>, <<-1, 0, 127, -7>>}

WeightChoices ==
    {<<1, 0, 0, 0,  0, 1, 0, 0,  0, 0, 1, 0,  0, 0, 0, 1>>,
     <<3, -2, 7, 0,  -128, 127, 1, 0,  5, 5, -5, 9,  0, -1, 2, -3>>}

\* the lines of the image file: program words from address 0, then the data
\* regions, zero elsewhere
ImageLine(prog, x, b, w, a) ==
    LET c == ScenarioConfig
    IN  IF a < 8 * Len(prog)
        THEN LET word == prog[(a \div 8) + 1]
                 k    == a % 8
             IN  <<word[2 * k + 1], word[2 * k + 2]>>
        ELSE IF a >= c.DRAM_ADDR_INPUTS /\ a < c.DRAM_ADDR_INPUTS + Len(x)
        THEN HexLine(x[a - c.DRAM_ADDR_INPUTS + 1])
        ELSE IF a >= c.DRAM_ADDR_BIASES /\ a < c.DRAM_ADDR_BIASES + Len(b)
        THEN HexLine(b[a - c.DRAM_ADDR_BIASES + 1])
        ELSE IF a >= c.DRAM_ADDR_WEIGHTS /\ a < c.DRAM_ADDR_WEIGHTS + Len(w)
        THEN HexLine(w[a - c.DRAM_ADDR_WEIGHTS + 1])
        ELSE HexLine(0)

ImageFile(prog, x, b, w) ==
    [n \in 1..ScenarioConfig.MEM_SIZE |-> ImageLine(prog, x, b, w, n - 1)]

\* the image of a program of NOP words only: every byte is zero
NopImage == ImageFile(<<WordZero>>, <<>>, <<>>, <<>>)

\* the RELU example: the six input bytes loaded, rectified and stored
ReluInput == <<3, -5, 0, 127, -128, 42>>

ReluImage ==
    ImageFile(<<WordLoadV(9, 64, 6), WordRelu(7, 9, 6), WordStore(7, 192, 6)>>,
              ReluInput, <<>>, <<>>)

\* a STORE whose destination lies inside the slice its source was loaded from
OverlapImage ==
    ImageFile(<<WordLoadV(9, 64, 4), WordStore(9, 65, 3)>>, <<1, 2, 3, 4>>, <<>>, <<>>)

Init ==
    /\ pc = "exec_call"
    /\ IdleCaller
    /\ cfg = ScenarioConfig
    /\ \/ \E s1 \in Slot1, s2 \in Slot2, s3 \in Slot3, s4 \in Slot4, s5 \in Slot5,
             s6 \in Slot6, x \in InputChoices, b \in BiasChoices, w \in WeightChoices :
             hex_file = ImageFile(<<s1, s2, s3, s4, s5, s6>>, x, b, w)
       \/ hex_file \in {NopImage, ReluImage, OverlapImage}
    /\ instructions = <<>>
    /\ ip = 0
    /\ memory = <<>>
    /\ buffers = <<>>
    /\ output_buffer = 0
    /\ returned = <<>>
    /\ IdleQuant
    /\ IdleSort
    /\ IdleAsm
    /\ IdleBuild

Next ==
    \/ ExecuteProgram
    \/ ExecLoadV
    \/ ExecLoadM
    \/ ExecStore
    \/ ExecGemv
    \/ ExecRelu
    \/ ExecUnknown
    \/ ExecReturn

Spec == Init /\ [][Next]_vars

(***************************************************************************)
(* C2: GEMV leaves in buffer[dest] exactly `rows` int8 values, the         *)
(* requantization (with the single max_abs over all rows) of               *)
(* acc_i = sum_j buffer[w][i*stride + j] * buffer[x][j] + buffer[b][i],    *)
(* the buffers being those the instruction finds.  Stated for every GEMV   *)
(* step whose operand reads all lie inside the buffers it finds.           *)
(***************************************************************************)
ClaimPaddedCols(tile, cols) ==
    (IF cols % tile = 0 THEN cols \div tile ELSE (cols \div tile) + 1) * tile

ClaimOperandsPresent(bufs, f, stride) ==
    /\ f.rows >= 1
    /\ {f.w, f.x, f.b} \subseteq DOMAIN bufs
    /\ BufLen(bufs[f.w]) >= (f.rows - 1) * stride + f.cols
    /\ BufLen(bufs[f.x]) >= f.cols
    /\ BufLen(bufs[f.b]) >= f.rows

ClaimAcc(bufs, mem, f, stride) ==
    [i \in 1..f.rows |->
        SumTo([j \in 0..(f.cols - 1) |->
                  BufAt(bufs[f.w], mem, (i - 1) * stride + j) * BufAt(bufs[f.x], mem, j)],
              f.cols)
        + BufAt(bufs[f.b], mem, i - 1)]

ClaimGemv(bufs, mem, f, stride) ==
    LET acc == ClaimAcc(bufs, mem, f, stride)
        m   == SeqMax([i \in 1..f.rows |-> Abs(acc[i])])
    IN  [i \in 1..f.rows |-> IF m = 0 THEN 0 ELSE ClaimRequant(acc[i], m)]

C2_GemvResult ==
    [][(Fetching(4) /\ ClaimOperandsPresent(buffers, DecodeGemv(instructions[ip]),
                                             ClaimPaddedCols(cfg.TILE_ELEMS,
                                                        DecodeGemv(instructions[ip]).cols)))
        => LET f == DecodeGemv(instructions[ip])
           IN  /\ pc' = "exec_loop"
               /\ f.dest \in DOMAIN buffers'
               /\ buffers'[f.dest] =
                     DataBuf(ClaimGemv(buffers, memory, f,
                                       ClaimPaddedCols(cfg.TILE_ELEMS, f.cols)))]_vars

(***************************************************************************)
(* C3: the identity-GEMV scenario.  The image holds LOAD_V 9,64,4;         *)
(* LOAD_M 1,256,4,4; LOAD_V 3,128,4; GEMV 5,1,9,3,4,4; STORE 5,192,4 with  *)
(* W = I_4, x = [1,2,3,4], b = [10,20,30,40]; the accumulators are         *)
(* [11,22,33,44], max_abs is 44, and the bytes at 192..195 are as stated.  *)
(***************************************************************************)
IdentityProgram ==
    <<WordLoadV(9, 64, 4), WordLoadM(1, 256, 4, 4), WordLoadV(3, 128, 4),
      WordGemv(5, 1, 9, 3, 4, 4), WordStore(5, 192, 4), WordZero>>

IdentityScenario ==
    hex_file = ImageFile(IdentityProgram, <<1, 2, 3, 4>>, <<10, 20, 30, 40>>,
                         <<1, 0, 0, 0,  0, 1, 0, 0,  0, 0, 1, 0,  0, 0, 0, 1>>)

\* the accumulators the GEMV of the scenario forms, seen when it is fetched
ScenarioAccumulators ==
    (Fetching(4) /\ IdentityScenario) =>
        LET acc == GemvRows(PutBuf(buffers, 5, DataBuf(<<0, 0, 0, 0>>)), memory,
                            5, 1, 9, 3, 4, 4, 0).buffers[5].data
        IN  acc = <<11, 22, 33, 44>> /\ MaxAbs(acc) = 44

OutputBytes == [k \in 1..4 |-> memory[191 + k]]

ZeroWordFetched ==
    /\ pc = "exec_loop"
    /\ \E z \in 1..(ip - 1) : z <= Len(instructions) /\ instructions[z] = WordZero

C4_HaltsAtZeroWord ==
    [][ZeroWordFetched => UNCHANGED <<memory, buffers, output_buffer>>]_vars

(***************************************************************************)
(* C8: LOAD_M(dest, addr, rows, cols) loads exactly rows * padded_cols     *)
(* bytes, so every index i * padded_cols + j (i < rows, j < cols) of a     *)
(* following GEMV lies inside buffer[dest].                                *)
(***************************************************************************)
LoadMJustExecuted ==
    /\ pc = "exec_loop"
    /\ ip >= 2
    /\ Opcode(instructions[ip - 1]) = 2

C8_LoadMPaddedLength ==
    LoadMJustExecuted =>
        LET f == DecodeLoadM(instructions[ip - 1])
            padded_cols == ClaimPaddedCols(cfg.TILE_ELEMS, f.cols)
        IN  /\ f.dest \in DOMAIN buffers
            /\ BufLen(buffers[f.dest]) = f.rows * padded_cols
            /\ \A i \in 0..(f.rows - 1), j \in 0..(f.cols - 1) :
                  i * padded_cols + j < BufLen(buffers[f.dest])

(***************************************************************************)
(* assemble_line and decode_instruction.  An assembly line is kept as its  *)
(* mnemonic and the integer values of its operands; the disassembler's     *)
(* text is kept the same way.                                              *)
(***************************************************************************)
\* the operand text "?", which int(x, 0) rejects
Question == -1

Mnemonics == {"LOAD_V", "LOAD_M", "STORE", "GEMV", "RELU", "NOP"}

OpcodeOf(instr) ==
    CASE instr = "LOAD_V" -> 1
      [] instr = "LOAD_M" -> 2
      [] instr = "STORE"  -> 3
      [] instr = "GEMV"   -> 4
      [] instr = "RELU"   -> 5
      [] instr = "NOP"    -> 0

\* the number of operands each branch unpacks
OperandCount(instr) ==
    CASE instr \in {"LOAD_V", "STORE"} -> 3
      [] instr = "LOAD_M" -> 4
      [] instr = "GEMV"   -> 6
      [] instr = "RELU"   -> 2
      [] instr = "NOP"    -> 0

\* the fields each branch ORs into the word
FieldsOf(instr, a) ==
    CASE instr \in {"LOAD_V", "STORE"} ->
            {[shift |-> 40, val |-> a[2]], [shift |-> 10, val |-> a[3]],
             [shift |-> 5, val |-> a[1]], [shift |-> 0, val |-> OpcodeOf(instr)]}
      [] instr = "LOAD_M" ->
            {[shift |-> 40, val |-> a[2]], [shift |-> 20, val |-> a[3]],
             [shift |-> 10, val |-> a[4]], [shift |-> 5, val |-> a[1]],
             [shift |-> 0, val |-> OpcodeOf(instr)]}
      [] instr = "GEMV" ->
            {[shift |-> 40, val |-> a[2]], [shift |-> 35, val |-> a[3]],
             [shift |-> 30, val |-> a[4]], [shift |-> 20, val |-> a[5]],
             [shift |-> 10, val |-> a[6]], [shift |-> 5, val |-> a[1]],
             [shift |-> 0, val |-> OpcodeOf(instr)]}
      [] instr = "RELU" ->
            {[shift |-> 10, val |-> a[2]], [shift |-> 5, val |-> a[1]],
             [shift |-> 0, val |-> OpcodeOf(instr)]}

\* assemble_line: [ok, hex]; an unknown mnemonic or a wrong number of
\* operands raises ValueError
AssembleLine(line) ==
    IF line.instr \notin Mnemonics THEN [ok |-> FALSE, hex |-> <<>>]
    ELSE IF line.instr = "NOP" THEN [ok |-> TRUE, hex |-> [d \in 1..22 |-> 0]]
    ELSE IF (\E k \in 1..Len(line.args) : line.args[k] = Question)
            \/ Len(line.args) # OperandCount(line.instr)
         THEN [ok |-> FALSE, hex |-> <<>>]
         ELSE [ok |-> TRUE, hex |-> WordHex(FieldsOf(line.instr, line.args))]

\* the width of the mask decode_instruction applies to a LOAD_V or STORE
\* length: 0x3FF
DisasmLengthBits == 10

DecodeInstruction(w) ==
    LET opcode == Field(w, 0, 5)
    IN  CASE opcode = 0 -> [instr |-> "NOP", args |-> <<>>]
          [] opcode \in {1, 3} ->
                [instr |-> IF opcode = 1 THEN "LOAD_V" ELSE "STORE",
                 args  |-> <<Field(w, 5, 5), Field(w, 40, 24),
                             Field(w, 10, DisasmLengthBits)>>]
          [] opcode = 2 ->
                [instr |-> "LOAD_M",
                 args  |-> <<Field(w, 5, 5), Field(w, 40, 24), Field(w, 20, 10),
                             Field(w, 10, 10)>>]
          [] opcode = 4 ->
                [instr |-> "GEMV",
                 args  |-> <<Field(w, 5, 5), Field(w, 40, 5), Field(w, 35, 5),
                             Field(w, 30, 5), Field(w, 20, 10), Field(w, 10, 10)>>]
          [] opcode = 5 ->
                [instr |-> "RELU", args |-> <<Field(w, 5, 5), Field(w, 10, 5)>>]
          [] OTHER -> [instr |-> "UNKNOWN_OPCODE", args |-> <<opcode>>]

(***************************************************************************)
(* SpecAsm: one line assembled, then disassembled.  The lines are those of *)
(* the instruction set with operands at the ends and inside of each bit    *)
(* field; RELU comes as the scheduler writes it (dest, x, length) and in   *)
(* the two-operand form.                                                   *)
(***************************************************************************)
BufferIds == {0, 9, 31}

Addresses == {0, 1792, 16777215}

Lengths18 == {0, 784, 1023, 1024, 262143}

Dims10 == {1, 12, 784, 1023}

AsmLines ==
    {[instr |-> m, args |-> <<d, a, n>>] :
        m \in {"LOAD_V", "STORE"}, d \in BufferIds, a \in Addresses, n \in Lengths18}
    \cup {[instr |-> "LOAD_M", args |-> <<d, a, r, c>>] :
        d \in BufferIds, a \in Addresses, r \in Dims10, c \in Dims10}
    \cup {[instr |-> "GEMV", args |-> <<d, w, x, b, r, c>>] :
        d \in {5, 31}, w \in {1, 31}, x \in {9, 31}, b \in {3, 31},
        r \in {12, 1023}, c \in {784, 1023}}
    \cup {[instr |-> "RELU", args |-> <<d, x, n>>] :
        d \in {7, 31}, x \in {5, 31}, n \in {0, 12, 1023}}
    \cup {[instr |-> "RELU", args |-> <<d, x>>] : d \in {7, 31}, x \in {5, 31}}
    \cup {[instr |-> "NOP", args |-> <<>>]}

InitAsm ==
    /\ pc = "asm_call"
    /\ IdleCaller
    /\ asm_line \in AsmLines
    /\ encoded = <<>>
    /\ decoded = <<>>
    /\ IdleQuant
    /\ IdleSort
    /\ IdleGold
    /\ IdleBuild

Assemble ==
    /\ pc = "asm_call"
    /\ LET r == AssembleLine(asm_line)
       IN  /\ encoded' = r.hex
           /\ pc' = IF r.ok THEN "asm_assembled" ELSE "asm_raised"
    /\ UNCHANGED <<asm_line, decoded, notAsm>>

Disassemble ==
    /\ pc = "asm_assembled"
    /\ decoded' = DecodeInstruction(encoded)
    /\ pc' = "asm_decoded"
    /\ UNCHANGED <<asm_line, encoded, notAsm>>

NextAsm == Assemble \/ Disassemble

SpecAsm == InitAsm /\ [][NextAsm]_vars

(***************************************************************************)
(* C6: RELU dest, x, length, as the scheduler emits it, is assembled into  *)
(* one 64-bit word with opcode 5 in bits [4:0], dest in [9:5], x_id in     *)
(* [14:10] and length in [29:20], from which the golden model's decoder    *)
(* recovers dest, x and length.                                            *)
(***************************************************************************)
C6_ReluEncoding ==
    (asm_line # <<>> /\ asm_line.instr = "RELU" /\ Len(asm_line.args) = 3
        /\ pc # "asm_call") =>
        /\ pc \in {"asm_assembled", "asm_decoded"}
        /\ Len(encoded) = 16
        /\ Field(encoded, 0, 5) = 5
        /\ Field(encoded, 5, 5) = asm_line.args[1]
        /\ Field(encoded, 10, 5) = asm_line.args[2]
        /\ Field(encoded, 20, 10) = asm_line.args[3]
        /\ DecodeRelu(encoded) = [dest |-> asm_line.args[1], x |-> asm_line.args[2],
                                  length |-> asm_line.args[3]]

(***************************************************************************)
(* C7: for every instruction the assembler produces, with operands that    *)
(* fit their bit fields, the disassembler returns the same mnemonic and    *)
(* the same operand values.                                                *)
(***************************************************************************)
C7_RoundTrip == pc = "asm_decoded" => decoded = asm_line

(***************************************************************************)
(* dram.py.  A float tensor is kept as the sequence of its elements in     *)
(* row-major order, each counted in halves (3 stands for 1.5); a scale is  *)
(* the fraction num/den of the same unit, so that tensor / scale is        *)
(* value * den / num.                                                      *)
(***************************************************************************)
\* np.round: to the nearest integer, a tie to the even one
RoundHalfEven(n, d) ==
    LET q == n \div d
        r == n % d
    IN  IF 2 * r < d THEN q
        ELSE IF 2 * r > d THEN q + 1
        ELSE IF q % 2 = 0 THEN q ELSE q + 1

\* np.max(np.abs(array)) / 127 if np.max(np.abs(array)) > 0 else 1.0
QuantScale(data) ==
    IF MaxAbs(data) > 0 THEN [num |-> MaxAbs(data), den |-> 127]
    ELSE [num |-> 2, den |-> 1]

QuantizeTensorF32Int8(data, scale) ==
    [k \in 1..Len(data) |->
        Clip(RoundHalfEven(data[k] * scale.den, scale.num), -128, 127)]

\* write_to_dram: [ok, dram, end_addr]
\* a write that stops one byte short of the end of the array
WriteToDramShort(d, array, start_addr) ==
    LET end_addr == start_addr + Len(array)
    IN  IF end_addr > Cardinality(DOMAIN d)
        THEN [ok |-> FALSE, dram |-> d, end_addr |-> end_addr]
        ELSE [ok |-> TRUE,
              dram |-> [a \in DOMAIN d |->
                          IF a >= start_addr /\ a < end_addr - 1
                          THEN array[a - start_addr + 1] ELSE d[a]],
              end_addr |-> end_addr]

WriteToDram(d, array, start_addr) ==
    LET end_addr == start_addr + Len(array)
    IN  IF end_addr > Cardinality(DOMAIN d)
        THEN [ok |-> FALSE, dram |-> d, end_addr |-> end_addr]
        ELSE [ok |-> TRUE,
              dram |-> [a \in DOMAIN d |->
                          IF a >= start_addr /\ a < end_addr
                          THEN array[a - start_addr + 1] ELSE d[a]],
              end_addr |-> end_addr]

\* read_from_dram: [ok, data]
ReadFromDram(d, start_addr, length) ==
    IF start_addr + length > Cardinality(DOMAIN d)
    THEN [ok |-> FALSE, data |-> <<>>]
    ELSE [ok |-> TRUE, data |-> [k \in 1..length |-> d[start_addr + k - 1]]]

UnpaddedCols(tile, cols) == cols

PaddedCols(tile, cols) == ((cols + tile - 1) \div tile) * tile

\* padded_array[:, :cols] = q_array, flattened
PaddedArray(q, rows, cols, padded_cols) ==
    [k \in 1..(rows * padded_cols) |->
        LET i == (k - 1) \div padded_cols
            j == (k - 1) % padded_cols
        IN  IF j < cols THEN q[i * cols + j + 1] ELSE 0]

IsInitializer(m, name) ==
    \E i \in 1..Len(m.initializer) : m.initializer[i].name = name

\* initializer_data[name]: the dict keeps the last initializer of a name
InitializerData(m, name) ==
    m.initializer[CHOOSE i \in 1..Len(m.initializer) :
        /\ m.initializer[i].name = name
        /\ \A j \in 1..Len(m.initializer) :
              m.initializer[j].name = name => j <= i]

\* the body of the loop over node.input, for one input name
PlaceInput(m, tile, st, name) ==
    IF ~st.ok \/ ~IsInitializer(m, name) \/ name \in st.visited THEN st
    ELSE LET init  == InitializerData(m, name)
             q     == QuantizeTensorF32Int8(init.data, QuantScale(init.data))
             seen  == st.visited \cup {name}
         IN  IF Len(init.shape) > 1
             THEN IF Len(init.shape) # 2
                  THEN [st EXCEPT !.ok = FALSE, !.visited = seen]
                  ELSE LET rows == init.shape[1]
                           cols == init.shape[2]
                           padded_cols == PaddedCols(tile, cols)
                           w == WriteToDram(st.dram,
                                            PaddedArray(q, rows, cols, padded_cols),
                                            st.weight_ptr)
                       IN  IF ~w.ok THEN [st EXCEPT !.ok = FALSE, !.visited = seen]
                           ELSE [st EXCEPT !.dram = w.dram,
                                           !.weight_map = (name :> st.weight_ptr) @@ @,
                                           !.weight_ptr = w.end_addr,
                                           !.visited = seen]
             ELSE LET w == WriteToDram(st.dram, q, st.bias_ptr)
                  IN  IF ~w.ok THEN [st EXCEPT !.ok = FALSE, !.visited = seen]
                      ELSE [st EXCEPT !.dram = w.dram,
                                      !.bias_map = (name :> st.bias_ptr) @@ @,
                                      !.bias_ptr = w.end_addr,
                                      !.visited = seen]

RECURSIVE PlaceInputs(_, _, _, _, _)
PlaceInputs(m, tile, st, inputs, i) ==
    IF i > Len(inputs) THEN st
    ELSE PlaceInputs(m, tile, PlaceInput(m, tile, st, inputs[i]), inputs, i + 1)

\* the loop over ordered_nodes; Reshape nodes are skipped
RECURSIVE PlaceNodes(_, _, _, _, _)
PlaceNodes(m, tile, st, ord, k) ==
    IF k > Len(ord) THEN st
    ELSE PlaceNodes(m, tile,
                    IF m.node[ord[k]].op_type = "Reshape" THEN st
                    ELSE PlaceInputs(m, tile, st, m.node[ord[k]].input, 1),
                    ord, k + 1)

DramOffsets(c) ==
    [inputs |-> c.DRAM_ADDR_INPUTS, biases |-> c.DRAM_ADDR_BIASES,
     outputs |-> c.DRAM_ADDR_OUTPUTS, weights |-> c.DRAM_ADDR_WEIGHTS]

SaveInitializersToDram(m, c, dram_offsets) ==
    PlaceNodes(m, c.TILE_ELEMS,
               [ok |-> TRUE, dram |-> [a \in 0..(c.MEM_SIZE - 1) |-> 0],
                weight_ptr |-> dram_offsets.weights, bias_ptr |-> dram_offsets.biases,
                weight_map |-> <<>>, bias_map |-> <<>>, visited |-> {}],
               TopologicalSort(m.node), 1)

SaveInitializers ==
    /\ pc = "build_call"
    /\ LET st == SaveInitializersToDram(model, cfg, DramOffsets(cfg))
       IN  /\ dram' = st.dram
           /\ weight_ptr' = st.weight_ptr
           /\ bias_ptr' = st.bias_ptr
           /\ weight_map' = st.weight_map
           /\ bias_map' = st.bias_map
           /\ pc' = IF st.ok THEN "build_placed" ELSE "build_raised"
    /\ UNCHANGED <<model, asm_instructions, program_hex, dram_hex, notBuild>>

(***************************************************************************)
(* compile.py: generate_assembly.  A line of assembly is [instr, args];    *)
(* the operand text "?" is kept as Question.  A dimension of the shape map *)
(* is [kind, v] with kind "value" (dim_value v), "param" (a dim_param     *)
(* name) or "unknown" (the text "?").                                      *)
(***************************************************************************)
DimValue(n) == [kind |-> "value", v |-> n]

IntDims(shape) == [k \in 1..Len(shape) |-> DimValue(shape[k])]

\* tensor_size
RECURSIVE TensorSizeFrom(_, _, _)
TensorSizeFrom(shape, k, size) ==
    IF k > Len(shape) THEN size
    ELSE TensorSizeFrom(shape, k + 1,
            CASE shape[k].kind = "value"   -> size * shape[k].v
              [] shape[k].kind = "unknown" -> 0
              [] OTHER                     -> size)

TensorSize(shape) == TensorSizeFrom(shape, 1, 1)

\* shape_map.get(name, [])
ShapeOf(m, name) ==
    IF name \in DOMAIN m.shape_map THEN m.shape_map[name] ELSE <<>>

\* build_initializer_map: "weight" if len(shape) > 1 else "bias"
InitializerType(init) == IF Len(init.shape) > 1 THEN "weight" ELSE "bias"

RECURSIVE Product(_)
Product(s) == IF s = <<>> THEN 1 ELSE Head(s) * Product(Tail(s))

\* rows, cols of a weight: the last dimension is the columns
WeightRows(shape) ==
    IF Len(shape) = 2 THEN shape[1] ELSE Product(SubSeq(shape, 1, Len(shape) - 1))

WeightCols(shape) == shape[Len(shape)]

\* tensor_buffer_map.get(name, "?")
BufferOf(tbm, name) == IF name \in DOMAIN tbm THEN tbm[name] ELSE Question

\* the operand text of a dimension taken from the shape map
DimOperand(d) == IF d.kind = "value" THEN d.v ELSE Question

\* a buffer id that is never advanced
PingPongStuck(buf, a, b) == a

\* `b if buf == a else a`
PingPong(buf, a, b) == IF buf = a THEN b ELSE a

\* the addresses generate_assembly writes into the instructions
CompileDramAddresses ==
    [inputs |-> 1792, weights |-> 67328, biases |-> 77824, outputs |-> 131072]

\* RELU results allocated from the GEMV pair of buffers
InitialCompileStateShared ==
    [mat_buf |-> 1, bias_vector_buf |-> 3, gemv_buf |-> 5, relu_buf |-> 5,
     input_buf |-> 9, tensor_buffer_map |-> <<>>, tensor_size_map |-> <<>>,
     asm_instructions |-> <<>>, weight_counter |-> 0, bias_counter |-> 0,
     ok |-> TRUE]

InitialCompileState ==
    [mat_buf |-> 1, bias_vector_buf |-> 3, gemv_buf |-> 5, relu_buf |-> 7,
     input_buf |-> 9, tensor_buffer_map |-> <<>>, tensor_size_map |-> <<>>,
     asm_instructions |-> <<>>, weight_counter |-> 0, bias_counter |-> 0,
     ok |-> TRUE]

Emit(gs, instr, args) ==
    [gs EXCEPT !.asm_instructions = Append(@, [instr |-> instr, args |-> args])]

\* the Reshape branch
CompileReshape(m, gs, node) ==
    LET input_name  == node.input[1]
        output_name == node.output[1]
    IN  IF input_name \in DOMAIN gs.tensor_buffer_map
        THEN [gs EXCEPT !.tensor_buffer_map =
                            (output_name :> gs.tensor_buffer_map[input_name]) @@ @]
        ELSE [Emit(gs, "LOAD_V",
                   <<gs.input_buf, CompileDramAddresses.inputs,
                     TensorSize(ShapeOf(m, input_name))>>)
                EXCEPT !.tensor_buffer_map =
                            (output_name :> 0) @@ (input_name :> 0) @@ @]

\* the body of the loop over node.input, for one input name
CompileInput(m, gs, name) ==
    IF ~IsInitializer(m, name) \/ name \in DOMAIN gs.tensor_buffer_map THEN gs
    ELSE LET init == InitializerData(m, name)
         IN  IF InitializerType(init) = "weight"
             THEN LET rows == WeightRows(init.shape)
                      cols == WeightCols(init.shape)
                  IN  [Emit(gs, "LOAD_M",
                            <<gs.mat_buf,
                              CompileDramAddresses.weights + gs.weight_counter,
                              rows, cols>>)
                         EXCEPT !.tensor_buffer_map = (name :> gs.mat_buf) @@ @,
                                !.weight_counter = @ + rows * cols,
                                !.mat_buf = PingPong(@, 1, 2)]
             ELSE LET size == TensorSize(IntDims(init.shape))
                  IN  [Emit(gs, "LOAD_V",
                            <<gs.bias_vector_buf,
                              CompileDramAddresses.biases + gs.bias_counter, size>>)
                         EXCEPT !.tensor_buffer_map = (name :> gs.bias_vector_buf) @@ @,
                                !.bias_counter = @ + size,
                                !.bias_vector_buf = PingPong(@, 3, 4)]

RECURSIVE CompileInputs(_, _, _, _)
CompileInputs(m, gs, inputs, i) ==
    IF i > Len(inputs) THEN gs
    ELSE CompileInputs(m, CompileInput(m, gs, inputs[i]), inputs, i + 1)

\* the Gemm / MatMul branch; node.input[1] of a node with fewer than two
\* inputs raises IndexError
CompileGemv(m, gs, node) ==
    IF Len(node.input) < 2 THEN [gs EXCEPT !.ok = FALSE] ELSE
    LET found      == BufferOf(gs.tensor_buffer_map, node.input[1])
        input_buf  == IF found = 0 THEN 9 ELSE found
        weight_buf == BufferOf(gs.tensor_buffer_map, node.input[2])
        bias_buf   == IF gs.bias_vector_buf = 3 THEN 4 ELSE 3
        from_init  == IsInitializer(m, node.input[2])
        shape      == IF from_init
                      THEN IntDims(InitializerData(m, node.input[2]).shape)
                      ELSE IF node.input[2] \in DOMAIN m.shape_map
                           THEN m.shape_map[node.input[2]]
                           ELSE <<[kind |-> "unknown", v |-> 0],
                                  [kind |-> "unknown", v |-> 0]>>
        rows       == IF from_init
                      THEN WeightRows(InitializerData(m, node.input[2]).shape)
                      ELSE DimOperand(shape[1])
        cols       == IF from_init
                      THEN WeightCols(InitializerData(m, node.input[2]).shape)
                      ELSE DimOperand(shape[2])
    IN  [Emit(gs, "GEMV", <<gs.gemv_buf, weight_buf, input_buf, bias_buf, rows, cols>>)
           EXCEPT !.input_buf = input_buf,
                  !.tensor_buffer_map = (node.output[1] :> gs.gemv_buf) @@ @,
                  !.tensor_size_map = (node.output[1] :> rows) @@ @,
                  !.gemv_buf = PingPong(@, 5, 6)]

\* the Relu branch
CompileRelu(gs, node) ==
    LET input_buf   == BufferOf(gs.tensor_buffer_map, node.input[1])
        relu_length == IF node.input[1] \in DOMAIN gs.tensor_size_map
                       THEN gs.tensor_size_map[node.input[1]] ELSE 0
    IN  [Emit(gs, "RELU", <<gs.relu_buf, input_buf, relu_length>>)
           EXCEPT !.input_buf = input_buf,
                  !.tensor_buffer_map = (node.output[1] :> gs.relu_buf) @@ @,
                  !.tensor_size_map = (node.output[1] :> relu_length) @@ @,
                  !.relu_buf = PingPong(@, 7, 8)]

IsGraphOutput(m, name) == \E o \in 1..Len(m.output) : m.output[o] = name

\* "Handle final output storage"
CompileStore(m, gs, node) ==
    IF IsGraphOutput(m, node.output[1])
    THEN Emit(gs, "STORE",
              <<BufferOf(gs.tensor_buffer_map, node.output[1]),
                CompileDramAddresses.outputs,
                TensorSize(ShapeOf(m, node.output[1]))>>)
    ELSE gs

\* one iteration of the loop over ordered_nodes
CompileNode(m, gs, node) ==
    IF node.op_type = "Reshape" THEN CompileReshape(m, gs, node)
    ELSE LET loaded == CompileInputs(m, gs, node.input, 1)
         IN  CASE node.op_type \in {"Gemm", "MatMul"} ->
                      IF CompileGemv(m, loaded, node).ok
                      THEN CompileStore(m, CompileGemv(m, loaded, node), node)
                      ELSE CompileGemv(m, loaded, node)
               [] node.op_type = "Add"  -> loaded
               [] node.op_type = "Relu" ->
                      CompileStore(m, CompileRelu(loaded, node), node)
               [] OTHER -> CompileStore(m, loaded, node)

RECURSIVE CompileNodes(_, _, _, _)
CompileNodes(m, gs, ord, k) ==
    IF k > Len(ord) \/ ~gs.ok THEN gs
    ELSE CompileNodes(m, CompileNode(m, gs, m.node[ord[k]]), ord, k + 1)

\* the locals of generate_assembly when its loop ends or raises
CompileResult(m) ==
    CompileNodes(m, InitialCompileState, TopologicalSort(m.node), 1)

\* generate_assembly: the instruction lines written after the header; the
\* file is written only when the loop has ended without raising
GenerateAssembly(m) ==
    IF CompileResult(m).ok THEN CompileResult(m).asm_instructions ELSE <<>>

\* assemble_file: [ok, machine_code]; the header lines assemble to None
RECURSIVE AssembleLines(_, _, _)
AssembleLines(lines, k, machine_code) ==
    IF k > Len(lines) THEN [ok |-> TRUE, machine_code |-> machine_code]
    ELSE LET r == AssembleLine(lines[k])
         IN  IF r.ok THEN AssembleLines(lines, k + 1, Append(machine_code, r.hex))
             ELSE [ok |-> FALSE, machine_code |-> <<>>]

AssembleFile(lines) == AssembleLines(lines, 1, <<>>)

(***************************************************************************)
(* generate_dram_for_input: the build pipeline, one action per call.       *)
(***************************************************************************)
GenerateAsm ==
    /\ pc = "build_placed"
    /\ asm_instructions' = GenerateAssembly(model)
    /\ pc' = IF CompileResult(model).ok THEN "build_scheduled" ELSE "build_raised"
    /\ UNCHANGED <<model, dram, weight_ptr, bias_ptr, weight_map, bias_map,
                   program_hex, dram_hex, notBuild>>

\* assemble_file writes program.hex; the dram array is not touched
AssembleProgram ==
    /\ pc = "build_scheduled"
    /\ LET r == AssembleFile(asm_instructions)
       IN  /\ program_hex' = r.machine_code
           /\ pc' = IF r.ok THEN "build_assembled" ELSE "build_raised"
    /\ UNCHANGED <<model, dram, weight_ptr, bias_ptr, weight_map, bias_map,
                   asm_instructions, dram_hex, notBuild>>

\* save_input_to_dram, then the read-back comparison
SaveInput(quantized_input) ==
    /\ pc = "build_assembled"
    /\ LET w == WriteToDram(dram, quantized_input, DramOffsets(cfg).inputs)
           r == ReadFromDram(w.dram, DramOffsets(cfg).inputs, Len(quantized_input))
       IN  /\ dram' = w.dram
           /\ pc' = IF w.ok /\ r.ok /\ r.data = quantized_input
                    THEN "build_input_saved" ELSE "build_raised"
    /\ UNCHANGED <<model, weight_ptr, bias_ptr, weight_map, bias_map,
                   asm_instructions, program_hex, dram_hex, notBuild>>

SaveDram ==
    /\ pc = "build_input_saved"
    /\ dram_hex' = SaveDramToFile(dram)
    /\ pc' = "build_done"
    /\ UNCHANGED <<model, dram, weight_ptr, bias_ptr, weight_map, bias_map,
                   asm_instructions, program_hex, notBuild>>

(***************************************************************************)
(* SpecBuild: the pipeline on multi-layer perceptrons of up to MaxLayers   *)
(* layers.  A layer is a Gemm node, or a MatMul node followed by an Add,   *)
(* optionally followed by a Relu; a Reshape may come first; graph.node is  *)
(* listed in execution order or reversed.  Tensor names are pairs.         *)
(* Initializer data is 127.0 or -127.0 in the first element and multiples  *)
(* of 0.5 elsewhere, or all zero, so that the scale is exactly 1.0.        *)
(***************************************************************************)
MaxLayers == 2

BuildConfig ==
    [TILE_ELEMS |-> 4, MEM_SIZE |-> 80, OUT_N |-> 3,
     DRAM_ADDR_INPUTS |-> 16, DRAM_ADDR_BIASES |-> 24,
     DRAM_ADDR_OUTPUTS |-> 28, DRAM_ADDR_WEIGHTS |-> 40]

BatchDim == [kind |-> "param", v |-> 0]

\* element k of a tensor of the given pattern, in halves
Element(pattern, k) ==
    CASE pattern = "zero"     -> 0
      [] pattern = "positive" -> IF k = 1 THEN 254 ELSE ((k * 61) % 509) - 254
      [] pattern = "negative" -> IF k = 1 THEN -254 ELSE ((k * 61) % 509) - 254

TensorData(pattern, n) == [k \in 1..n |-> Element(pattern, k)]

LayerOutput(layers, k) ==
    IF layers[k].relu THEN <<"a", k>> ELSE <<"h", k>>

LayerInput(reshape, layers, k) ==
    IF k > 1 THEN LayerOutput(layers, k - 1)
    ELSE IF reshape THEN <<"flat", 0>> ELSE <<"input", 0>>

LayerNodes(reshape, layers, k) ==
    (IF layers[k].kind = "Gemm"
     THEN <<[op_type |-> "Gemm",
             input |-> <<LayerInput(reshape, layers, k), <<"w", k>>, <<"b", k>>>>,
             output |-> <<<<"h", k>>>>]>>
     ELSE <<[op_type |-> "MatMul",
             input |-> <<LayerInput(reshape, layers, k), <<"w", k>>>>,
             output |-> <<<<"m", k>>>>],
            [op_type |-> "Add",
             input |-> <<<<"m", k>>, <<"b", k>>>>,
             output |-> <<<<"h", k>>>>]>>)
    \o (IF layers[k].relu
        THEN <<[op_type |-> "Relu", input |-> <<<<"h", k>>>>,
                output |-> <<<<"a", k>>>>]>>
        ELSE <<>>)

RECURSIVE AllLayerNodes(_, _, _)
AllLayerNodes(reshape, layers, k) ==
    IF k > Len(layers) THEN <<>>
    ELSE LayerNodes(reshape, layers, k) \o AllLayerNodes(reshape, layers, k + 1)

Reverse(s) == [k \in 1..Len(s) |-> s[Len(s) + 1 - k]]

RECURSIVE LayerInitializers(_, _, _)
LayerInitializers(layers, pattern, k) ==
    IF k > Len(layers) THEN <<>>
    ELSE <<[name |-> <<"w", k>>, shape |-> <<layers[k].rows, layers[k].cols>>,
            data |-> TensorData(pattern, layers[k].rows * layers[k].cols)],
           [name |-> <<"b", k>>, shape |-> <<layers[k].rows>>,
            data |-> TensorData(pattern, layers[k].rows)]>>
         \o LayerInitializers(layers, pattern, k + 1)

RECURSIVE LayerShapes(_, _)
LayerShapes(layers, k) ==
    IF k > Len(layers) THEN <<>>
    ELSE (<<"h", k>> :> <<BatchDim, DimValue(layers[k].rows)>>)
         @@ (<<"m", k>> :> <<BatchDim, DimValue(layers[k].rows)>>)
         @@ (<<"a", k>> :> <<BatchDim, DimValue(layers[k].rows)>>)
         @@ LayerShapes(layers, k + 1)

MlpModel(reshape, reversed, pattern, layers) ==
    LET nodes == (IF reshape
                  THEN <<[op_type |-> "Reshape",
                          input |-> <<<<"input", 0>>, <<"shape", 0>>>>,
                          output |-> <<<<"flat", 0>>>>]>>
                  ELSE <<>>) \o AllLayerNodes(reshape, layers, 1)
    IN  [node |-> IF reversed THEN Reverse(nodes) ELSE nodes,
         initializer |->
            (IF reshape
             THEN <<[name |-> <<"shape", 0>>, shape |-> <<2>>,
                     data |-> <<2, 2 * layers[1].cols>>]>>
             ELSE <<>>) \o LayerInitializers(layers, pattern, 1),
         output |-> <<LayerOutput(layers, Len(layers))>>,
         shape_map |->
            (<<"input", 0>> :>
                (IF reshape
                 THEN <<BatchDim, DimValue(1), DimValue(1), DimValue(layers[1].cols)>>
                 ELSE <<BatchDim, DimValue(layers[1].cols)>>))
            @@ (<<"flat", 0>> :> <<BatchDim, DimValue(layers[1].cols)>>)
            @@ LayerShapes(layers, 1)]

LayerKinds == {"Gemm", "MatMul"}

FirstLayers ==
    {[kind |-> kd, rows |-> r, cols |-> c, relu |-> a] :
        kd \in LayerKinds, r \in {2, 3}, c \in {3, 4, 5}, a \in BOOLEAN}

NextLayers(prev) ==
    {[kind |-> kd, rows |-> r, cols |-> prev.rows, relu |-> a] :
        kd \in LayerKinds, r \in {2}, a \in BOOLEAN}

RECURSIVE LayerLists(_)
LayerLists(n) ==
    IF n = 1 THEN {<<l>> : l \in FirstLayers}
    ELSE LET shorter == LayerLists(n - 1)
         IN  shorter \cup
             UNION {{Append(ls, l) : l \in NextLayers(ls[Len(ls)])} :
                        ls \in {x \in shorter : Len(x) = n - 1}}

QuantizedInputs(n) == {[k \in 1..n |-> 127], [k \in 1..n |-> IF k = 1 THEN -128 ELSE k]}

InitBuild ==
    /\ pc = "build_call"
    /\ IdleCaller
    /\ cfg = BuildConfig
    /\ \E reshape \in BOOLEAN, reversed \in BOOLEAN,
          pattern \in {"zero", "positive", "negative"} :
          \E layers \in LayerLists(MaxLayers) :
              model = MlpModel(reshape, reversed, pattern, layers)
    /\ dram = [a \in 0..(BuildConfig.MEM_SIZE - 1) |-> 0]
    /\ weight_ptr = 0
    /\ bias_ptr = 0
    /\ weight_map = <<>>
    /\ bias_map = <<>>
    /\ asm_instructions = <<>>
    /\ program_hex = <<>>
    /\ dram_hex = <<>>
    /\ hex_file = <<>>
    /\ instructions = <<>>
    /\ ip = 0
    /\ memory = <<>>
    /\ buffers = <<>>
    /\ output_buffer = 0
    /\ returned = <<>>
    /\ IdleQuant
    /\ IdleSort
    /\ IdleAsm

InputLength(m) ==
    TensorSize(ShapeOf(m, <<"input", 0>>))

NextBuild ==
    \/ SaveInitializers
    \/ GenerateAsm
    \/ AssembleProgram
    \/ \E x \in QuantizedInputs(InputLength(model)) : SaveInput(x)
    \/ SaveDram

SpecBuild == InitBuild /\ [][NextBuild]_vars

(***************************************************************************)
(* C5: after the build pipeline, the k-th emitted instruction occupies     *)
(* bytes 8k .. 8k+7 of the memory image, most significant byte first,      *)
(* from address 0, so that the golden model fetches it as its k-th word.   *)
(***************************************************************************)
C5_InstructionsInImage ==
    pc = "build_done" =>
        /\ Len(program_hex) = Len(asm_instructions)
        /\ \A k \in 1..Len(asm_instructions) :
              /\ \A byte \in 0..7 :
                    dram_hex[8 * (k - 1) + byte + 1]
                        = <<program_hex[k][2 * byte + 1], program_hex[k][2 * byte + 2]>>
              /\ InstructionWords(dram_hex, cfg.DRAM_ADDR_INPUTS)[k]
                    = AssembleLine(asm_instructions[k]).hex

(***************************************************************************)
(* C9: for every weight matrix the memory builder places, row i occupies   *)
(* image bytes [base + i*padded_cols, base + (i+1)*padded_cols): the first *)
(* cols bytes are the quantized row, the bytes at row offsets cols ..      *)
(* padded_cols-1 are zero, and the weight cursor advances by               *)
(* rows * padded_cols.                                                     *)
(***************************************************************************)
Placed ==
    pc \in {"build_placed", "build_scheduled", "build_assembled",
            "build_input_saved", "build_done"}

WeightCount(m) ==
    Cardinality({i \in 1..Len(m.initializer) : Len(m.initializer[i].shape) = 2})

C9_WeightRowPadding ==
    Placed =>
        \A k \in 1..WeightCount(model) :
            LET init        == InitializerData(model, <<"w", k>>)
                rows        == init.shape[1]
                cols        == init.shape[2]
                padded_cols == ClaimPaddedCols(cfg.TILE_ELEMS, cols)
                q           == QuantizeTensorF32Int8(init.data, QuantScale(init.data))
            IN  /\ <<"w", k>> \in DOMAIN weight_map
                /\ weight_map[<<"w", 1>>] = cfg.DRAM_ADDR_WEIGHTS
                /\ LET base == weight_map[<<"w", k>>]
                   IN  /\ \A i \in 0..(rows - 1), j \in 0..(padded_cols - 1) :
                              dram[base + i * padded_cols + j]
                                  = IF j < cols THEN q[i * cols + j + 1] ELSE 0
                       /\ (IF k = WeightCount(model) THEN weight_ptr
                           ELSE weight_map[<<"w", k + 1>>]) = base + rows * padded_cols

\* a 3x5 weight with tile_elems = 4 occupies 24 bytes, offsets 5, 6, 7 of
\* each 8-byte row zero
C9_Witness ==
    /\ pc = "build_placed"
    /\ cfg.TILE_ELEMS = 4
    /\ WeightCount(model) = 1
    /\ InitializerData(model, <<"w", 1>>).shape = <<3, 5>>
    /\ weight_map[<<"w", 1>>] = 40
    /\ weight_ptr = 64
    /\ dram[40] = 127
    /\ dram[44] # 0
    /\ \A i \in 0..2 : dram[45 + 8 * i] = 0 /\ dram[46 + 8 * i] = 0 /\ dram[47 + 8 * i] = 0

(***************************************************************************)
(* SpecCompile: compile.py run as a script, generate_assembly on a model   *)
(* file.  The models are the perceptrons of SpecBuild and the same graphs  *)
(* followed by one more node that consumes the last layer's output and     *)
(* produces the graph output: a node of another operator type, or a Gemm   *)
(* node that names no weight.                                              *)
(***************************************************************************)
MaxCompileLayers == 3

TailKinds == {"none", "Softmax", "Sigmoid", "Gemm"}

WithTail(m, reversed, tail) ==
    IF tail = "none" THEN m
    ELSE LET node == [op_type |-> tail, input |-> <<m.output[1]>>,
                      output |-> <<<<"y", 0>>>>]
         IN  [m EXCEPT !.node = IF reversed THEN <<node>> \o @ ELSE Append(@, node),
                       !.output = <<<<"y", 0>>>>,
                       !.shape_map = (<<"y", 0>> :> m.shape_map[m.output[1]]) @@ @]

\* the layer lists of SpecBuild with a first weight of shape 2 x 3
CompileLayerLists ==
    {ls \in LayerLists(MaxCompileLayers) : ls[1].rows = 2 /\ ls[1].cols = 3}

InitCompile ==
    /\ pc = "compile_call"
    /\ IdleCaller
    /\ \E reshape \in BOOLEAN, reversed \in BOOLEAN, tail \in TailKinds :
          \E layers \in CompileLayerLists :
              model = WithTail(MlpModel(reshape, reversed, "zero", layers),
                               reversed, tail)
    /\ dram = <<>>
    /\ weight_ptr = 0
    /\ bias_ptr = 0
    /\ weight_map = <<>>
    /\ bias_map = <<>>
    /\ asm_instructions = <<>>
    /\ program_hex = <<>>
    /\ dram_hex = <<>>
    /\ IdleQuant
    /\ IdleSort
    /\ IdleGold
    /\ IdleAsm

CompileMain ==
    /\ pc = "compile_call"
    /\ asm_instructions' = GenerateAssembly(model)
    /\ pc' = IF CompileResult(model).ok THEN "compile_done" ELSE "compile_raised"
    /\ UNCHANGED <<model, dram, weight_ptr, bias_ptr, weight_map, bias_map,
                   program_hex, dram_hex, notBuild>>

NextCompile == CompileMain

SpecCompile == InitCompile /\ [][NextCompile]_vars

(***************************************************************************)
(* The supported graphs: in execution order the operator types read        *)
(* Reshape? (Gemm|MatMul Add? Relu?)+, every node consumes the output of   *)
(* the node before it, and the last node produces the graph output.        *)
(***************************************************************************)
RECURSIVE ChainMatches(_, _, _, _)
ChainMatches(m, ord, k, after) ==
    IF k > Len(ord) THEN after \in {"gemv", "add", "relu"}
    ELSE LET node == m.node[ord[k]]
             op   == node.op_type
             linked == k = 1 \/ (Len(node.input) >= 1
                                 /\ node.input[1] = m.node[ord[k - 1]].output[1])
         IN  /\ linked
             /\ CASE op = "Reshape" ->
                        after = "start" /\ ChainMatches(m, ord, k + 1, "reshape")
                  [] op \in {"Gemm", "MatMul"} ->
                        Len(node.input) >= 2 /\ ChainMatches(m, ord, k + 1, "gemv")
                  [] op = "Add" ->
                        after = "gemv" /\ ChainMatches(m, ord, k + 1, "add")
                  [] op = "Relu" ->
                        after \in {"gemv", "add"} /\ ChainMatches(m, ord, k + 1, "relu")
                  [] OTHER -> FALSE

SupportedGraph(m) ==
    LET ord == TopologicalSort(m.node)
    IN  /\ Len(ord) = Len(m.node)
        /\ ChainMatches(m, ord, 1, "start")
        /\ m.output = <<m.node[ord[Len(ord)]].output[1]>>

(***************************************************************************)
(* C11: the compiler is fail-closed: for a graph outside the supported     *)
(* chain the scheduler fails with an error and emits no program.           *)
(***************************************************************************)
C11_FailClosed ==
    (pc \in {"compile_done", "compile_raised"} /\ ~SupportedGraph(model)) =>
        (pc = "compile_raised" /\ asm_instructions = <<>>)

(***************************************************************************)
(* C12: STORE(src, addr, len) copies buffer[src][0..len), as the           *)
(* instruction finds it, to memory[addr..addr+len) and records src as the  *)
(* current output buffer; no other instruction changes the recorded        *)
(* buffer, and at the end of the program the first output_length bytes of  *)
(* the recorded buffer are returned.                                       *)
(***************************************************************************)
StoreExecuted == Fetching(3) /\ pc' = "exec_loop"

ClaimStore ==
    LET f == DecodeStore(instructions[ip])
    IN  /\ \A i \in 0..(f.len - 1) :
              memory'[f.addr + i] = BufAt(buffers[f.buf_id], memory, i)
        /\ \A a \in DOMAIN memory :
              (a < f.addr \/ a >= f.addr + f.len) => memory'[a] = memory[a]
        /\ output_buffer' = f.buf_id

ClaimReturn ==
    LET b == BufSeq(buffers[output_buffer], memory)
    IN  returned' = SubSeq(b, 1, Min(cfg.OUT_N, Len(b)))

C12_StoreAndReturn ==
    [][/\ StoreExecuted => ClaimStore
       /\ (pc = "exec_loop" /\ ~Fetching(3)) => output_buffer' = output_buffer
       /\ (pc = "exec_loop" /\ pc' = "exec_done") => ClaimReturn]_vars

\* the same, for the STOREs whose source buffer is not a slice of memory
\* that the copy itself overwrites
StoreOverlapsSource ==
    LET f == DecodeStore(instructions[ip])
        b == buffers[f.buf_id]
    IN  b.view /\ f.addr < b.addr + b.len /\ b.addr < f.addr + f.len

StoreDisjoint ==
    [][/\ (StoreExecuted /\ ~StoreOverlapsSource) => ClaimStore
       /\ (pc = "exec_loop" /\ ~Fetching(3)) => output_buffer' = output_buffer
       /\ (pc = "exec_loop" /\ pc' = "exec_done") => ClaimReturn]_vars

(***************************************************************************)
(* C13: on the image of NOP words only (every byte zero, so no STORE is    *)
(* executed) execute_program ends without raising and returns              *)
(* output_length zeros.                                                    *)
(***************************************************************************)
C13_NopImageReturnsZeros ==
    (pc \in {"exec_done", "exec_raised"} /\ hex_file = NopImage)
        => (pc = "exec_done" /\ returned = [i \in 1..cfg.OUT_N |-> 0])

(***************************************************************************)
(* C14: for every supported graph that generate_assembly compiles,         *)
(* whichever of Gemm, MatMul, Add or Relu produces the graph output, the   *)
(* program holds `STORE out_buf, outputs_base, size` after the last        *)
(* computing instruction (the one that produces the output tensor), with   *)
(* out_buf the buffer that instruction wrote and size the number of        *)
(* elements of the output tensor.                                          *)
(***************************************************************************)
Computes(line) == line.instr \in {"GEMV", "RELU"}

ClaimOutputStore(m, asm) ==
    \E j, k \in 1..Len(asm) :
        /\ j < k
        /\ Computes(asm[j])
        /\ \A l \in (j + 1)..Len(asm) : ~Computes(asm[l])
        /\ asm[k].instr = "STORE"
        /\ asm[k].args = <<asm[j].args[1], CompileDramAddresses.outputs,
                           TensorSize(ShapeOf(m, m.output[1]))>>

OutputProducer(m) ==
    LET ord == TopologicalSort(m.node) IN m.node[ord[Len(ord)]].op_type

C14_OutputStored ==
    (pc = "compile_done" /\ SupportedGraph(model))
        => ClaimOutputStore(model, asm_instructions)

\* the same, for the graphs whose output is not produced by an Add node
OutputStoredUnlessAdd ==
    (pc = "compile_done" /\ SupportedGraph(model)
        /\ OutputProducer(model) # "Add")
        => ClaimOutputStore(model, asm_instructions)

(***************************************************************************)
(* C15: in every program generate_assembly emits, the k-th LOAD_M targets  *)
(* buffer 1 for odd k and 2 for even k, the k-th bias LOAD_V targets 3     *)
(* or 4, the k-th GEMV writes 5 or 6, the k-th RELU writes 7 or 8 in the   *)
(* same alternation, and the LOAD_V of the network input targets buffer 9. *)
(***************************************************************************)
IsInputLoad(line) ==
    line.instr = "LOAD_V" /\ line.args[2] = CompileDramAddresses.inputs

IsBiasLoad(line) == line.instr = "LOAD_V" /\ ~IsInputLoad(line)

IsOp(line, instr) == line.instr = instr

\* the destination buffers of the LOAD_M, bias LOAD_V, GEMV and RELU lines
Dests(asm, kind) ==
    LET Keep(line) == IF kind = "bias" THEN IsBiasLoad(line) ELSE IsOp(line, kind)
        lines      == SelectSeq(asm, Keep)
    IN  [k \in 1..Len(lines) |-> lines[k].args[1]]

Alternates(dests, odd, even) ==
    \A k \in 1..Len(dests) : dests[k] = IF k % 2 = 1 THEN odd ELSE even

ClaimPingPong(asm) ==
    /\ Alternates(Dests(asm, "LOAD_M"), 1, 2)
    /\ Alternates(Dests(asm, "bias"), 3, 4)
    /\ Alternates(Dests(asm, "GEMV"), 5, 6)
    /\ Alternates(Dests(asm, "RELU"), 7, 8)
    /\ \A k \in 1..Len(asm) : IsInputLoad(asm[k]) => asm[k].args[1] = 9

BuildNotRaised ==
    pc \in {"build_placed", "build_scheduled", "build_assembled",
            "build_input_saved", "build_done"}

C16_RegionsDisjoint ==
    BuildNotRaised => (bias_ptr <= cfg.DRAM_ADDR_OUTPUTS /\ weight_ptr <= cfg.MEM_SIZE)

\* the part of it that write_to_dram enforces
CursorsInMemory ==
    BuildNotRaised => (bias_ptr <= cfg.MEM_SIZE /\ weight_ptr <= cfg.MEM_SIZE)

(***************************************************************************)
(* C17: after save_initializers_to_dram has run without raising, every     *)
(* initializer name of the graph has exactly one placement record: it is   *)
(* in the weight map or in the bias map, and not in both.                  *)
(***************************************************************************)
InitializerNames(m) == {m.initializer[i].name : i \in 1..Len(m.initializer)}

PlacedOnce(name) ==
    (name \in DOMAIN weight_map) # (name \in DOMAIN bias_map)

C17_EveryInitializerPlaced ==
    pc = "build_placed" => \A name \in InitializerNames(model) : PlacedOnce(name)

\* the same, for the initializers read by a node that is not a Reshape
ReadByComputeNode(m, name) ==
    \E n \in 1..Len(m.node) :
        /\ m.node[n].op_type # "Reshape"
        /\ \E i \in 1..Len(m.node[n].input) : m.node[n].input[i] = name

ComputeInitializersPlaced ==
    pc = "build_placed" =>
        \A name \in InitializerNames(model) :
            ReadByComputeNode(model, name) => PlacedOnce(name)

(***************************************************************************)
(* C18: when the producer/consumer relation of the graph has a cycle,      *)
(* topological_sort does not return: no schedule, partial or complete,     *)
(* comes back for a cyclic graph.                                          *)
(***************************************************************************)
C18_CycleRejected == pc = "sort_done" => Acyclic(graph)

\* what comes back for a cyclic graph lacks the nodes on and behind cycles
PartialOnCycle == (pc = "sort_done" /\ ~Acyclic(graph)) => Len(ordered) < Len(graph)

(***************************************************************************)
(* C19: RELU(dest, x, len) sets buffer[dest] to the first len bytes of     *)
(* buffer[x] with every negative value replaced by zero and leaves the     *)
(* other buffers and the memory alone; for x = [3, -5, 0, 127, -128, 42]   *)
(* and len = 6 the result is [3, 0, 0, 127, 0, 42].                        *)
(***************************************************************************)
ClaimRelu(b, mem, len) ==
    [k \in 1..Min(len, BufLen(b)) |->
        LET v == BufAt(b, mem, k - 1) IN IF v >= 0 THEN v ELSE 0]

ClaimReluStep ==
    LET f == DecodeRelu(instructions[ip])
    IN  /\ BufSeq(buffers'[f.dest], memory') = ClaimRelu(buffers[f.x], memory, f.length)
        /\ \A id \in DOMAIN buffers : id # f.dest => buffers'[id] = buffers[id]
        /\ DOMAIN buffers' = DOMAIN buffers \cup {f.dest}
        /\ memory' = memory

ReluExampleDone == pc = "exec_loop" /\ ip > 2 /\ hex_file = ReluImage

C19_Relu ==
    /\ [][(Fetching(5) /\ pc' = "exec_loop") => ClaimReluStep]_vars
    /\ [](ReluExampleDone =>
            /\ BufSeq(buffers[9], memory) = <<3, -5, 0, 127, -128, 42>>
            /\ BufSeq(buffers[7], memory) = <<3, 0, 0, 127, 0, 42>>)

C19_Witness == ReluExampleDone /\ ip = 3 /\ 7 \in DOMAIN buffers

(***************************************************************************)
(* C20: a word whose opcode is not defined (neither NOP nor one of the     *)
(* five instructions) is not fatal: the step that decodes it leaves every  *)
(* buffer, the memory and the recorded output buffer unchanged, and the    *)
(* loop goes on with the next word.                                        *)
(***************************************************************************)
UndefinedFetched ==
    /\ pc = "exec_loop"
    /\ LoopRuns(ip, instructions)
    /\ Opcode(instructions[ip]) \notin 0..5

C20_UnknownOpcodeSkipped ==
    [][UndefinedFetched =>
          /\ buffers' = buffers
          /\ memory' = memory
          /\ output_buffer' = output_buffer
          /\ pc' = "exec_loop"
          /\ ip' = ip + 1]_vars

\* the word after an undefined one has been executed
C20_Witness ==
    /\ pc = "exec_loop"
    /\ ip > 4
    /\ Opcode(instructions[ip - 2]) = 9
    /\ Opcode(instructions[ip - 1]) = 5
    /\ 5 \in DOMAIN buffers

(***************************************************************************)
(* C21: for a vector whose maximum absolute value is m, requantize(acc, m) *)
(* maps every element equal to +m to 127 and every element equal to -m to  *)
(* -127.  As stated, for every m from 1 up to the int32 range; amended,    *)
(* for every m from 1 up to 2^23, where the remainder of 127 * 2^24 by m   *)
(* stays below the rounding bias.                                          *)
(***************************************************************************)
ClaimBoundary ==
    \A i \in 1..Len(x_int32) :
        /\ x_int32[i] = max_abs => q_result[i] = 127
        /\ x_int32[i] = -max_abs => q_result[i] = -127

BoundaryCase ==
    /\ pc = "quant_done"
    /\ max_abs >= 1
    /\ MaxAbs(x_int32) = max_abs

C21_BoundaryOriginal == BoundaryCase => ClaimBoundary

C21_BoundaryAmended == (BoundaryCase /\ max_abs <= 2^23) => ClaimBoundary

C21_Witness ==
    /\ BoundaryCase
    /\ max_abs = 239194
    /\ x_int32 = <<239194, -239194>>
    /\ q_result = <<127, -127>>

(***************************************************************************)
(* SpecRerun: execute_program called twice in one process on the same      *)
(* image file, as a driver that evaluates one input after another does.    *)
(* The globals buffers, output_buffer and memory keep what the first call  *)
(* left until the second call resets them.                                 *)
(***************************************************************************)
InitRerun ==
    /\ pc = "exec_call"
    /\ IdleCaller
    /\ cfg = ScenarioConfig
    /\ \/ \E s1 \in Slot1, s2 \in Slot2, s3 \in Slot3, s4 \in Slot4, s5 \in Slot5,
             s6 \in Slot6 :
             hex_file = ImageFile(<<s1, s2, s3, s4, s5, s6>>, <<1, 2, 3, 4>>,
                                  <<10, 20, 30, 40>>,
                                  <<1, 0, 0, 0,  0, 1, 0, 0,  0, 0, 1, 0,  0, 0, 0, 1>>)
       \/ hex_file \in {NopImage, ReluImage, OverlapImage}
    /\ instructions = <<>>
    /\ ip = 0
    /\ memory = <<>>
    /\ buffers = <<>>
    /\ output_buffer = 0
    /\ returned = <<>>
    /\ IdleQuant
    /\ IdleSort
    /\ IdleAsm
    /\ IdleBuild

\* the caller keeps the outcome of the first call and calls again
ExecuteAgain ==
    /\ pc \in {"exec_done", "exec_raised"}
    /\ first_run = <<>>
    /\ first_run' = [outcome |-> pc, returned |-> returned]
    /\ pc' = "exec_call"
    /\ UNCHANGED <<goldVars, quantVars, sortVars, asmVars, buildVars>>

NextRerun ==
    \/ ExecuteProgram
    \/ ExecLoadV
    \/ ExecLoadM
    \/ ExecStore
    \/ ExecGemv
    \/ ExecRelu
    \/ ExecUnknown
    \/ ExecReturn
    \/ ExecuteAgain

SpecRerun == InitRerun /\ [][NextRerun]_vars

(***************************************************************************)
(* C22: a second execute_program call in the same process on the same      *)
(* image ends as the first did and returns the same output: nothing the    *)
(* first call left in buffers, output_buffer or memory reaches it.         *)
(***************************************************************************)
SecondRunEnded == first_run # <<>> /\ pc \in {"exec_done", "exec_raised"}

C22_Determinism ==
    SecondRunEnded =>
        /\ pc = first_run.outcome
        /\ pc = "exec_done" => returned = first_run.returned

\* both runs stored their output over the input region
C22_Witness ==
    /\ SecondRunEnded
    /\ pc = "exec_done"
    /\ instructions[5] = WordStore(5, 64, 2)
    /\ memory[64] # 1
    /\ returned = first_run.returned
    /\ returned # <<>>

(***************************************************************************)
(* C23: save_dram_to_file writes exactly MEM_SIZE lines in address order,  *)
(* line a holding the two hex digits of byte a viewed as unsigned (the     *)
(* value mod 256), and load_memory on that file yields the same signed     *)
(* byte at every address.                                                  *)
(***************************************************************************)
ClaimUnsigned(byte) == IF byte < 0 THEN byte + 256 ELSE byte

ClaimHexDigits(byte) == <<ClaimUnsigned(byte) \div 16, ClaimUnsigned(byte) % 16>>

C23_SerializationRoundTrip ==
    pc = "build_done" =>
        LET loaded == LoadMemory(dram_hex)
        IN  /\ Len(dram_hex) = cfg.MEM_SIZE
            /\ DOMAIN loaded = 0..(cfg.MEM_SIZE - 1)
            /\ \A a \in 0..(cfg.MEM_SIZE - 1) :
                  /\ dram_hex[a + 1] = ClaimHexDigits(dram[a])
                  /\ loaded[a] = dram[a]

\* an image with negative and positive bytes has been written and read back
C23_Witness ==
    /\ pc = "build_done"
    /\ \E a, b \in 0..(cfg.MEM_SIZE - 1) : dram[a] < 0 /\ dram[b] > 0
    /\ \E a \in 0..(cfg.MEM_SIZE - 1) : dram[a] = -128

(***************************************************************************)
(* C24: whenever start + len(a) <= MEM_SIZE, writing the int8 array a at   *)
(* start and reading len(a) bytes from start gives back a, the bytes       *)
(* outside the range keep their values, and the read-back check after      *)
(* the input has been written does not fail.                               *)
(***************************************************************************)
InputFits == DramOffsets(cfg).inputs + InputLength(model) <= cfg.MEM_SIZE

ClaimReadBack ==
    LET start == DramOffsets(cfg).inputs
        len   == InputLength(model)
    IN  /\ pc' = "build_input_saved"
        /\ \E a \in QuantizedInputs(len) :
              ReadFromDram(dram', start, len) = [ok |-> TRUE, data |-> a]
        /\ \A addr \in DOMAIN dram :
              (addr < start \/ addr >= start + len) => dram'[addr] = dram[addr]

C24_WriteReadBack ==
    [][(pc = "build_assembled" /\ InputFits) => ClaimReadBack]_vars

C24_Witness ==
    /\ pc = "build_input_saved"
    /\ dram[DramOffsets(cfg).inputs] = -128
    /\ dram[DramOffsets(cfg).inputs + 1] = 2

(***************************************************************************)
(* C25: quantize_tensor_f32_int8 rounds x / scale half away from zero      *)
(* before clipping to [-128, 127]: every weight byte of the image is the   *)
(* quotient rounded to the nearest integer, a quotient halfway between     *)
(* two integers going to the one of larger magnitude.                      *)
(***************************************************************************)
\* n / d rounded half away from zero, d > 0
ClaimRoundHalfAway(n, d) ==
    IF n >= 0 THEN (2 * n + d) \div (2 * d) ELSE -((2 * (-n) + d) \div (2 * d))

ClaimQuantizeF32(v, scale) ==
    Clip(ClaimRoundHalfAway(v * scale.den, scale.num), -128, 127)

C25_RoundHalfAway ==
    Placed =>
        \A k \in 1..WeightCount(model) :
            LET init        == InitializerData(model, <<"w", k>>)
                cols        == init.shape[2]
                padded_cols == ClaimPaddedCols(cfg.TILE_ELEMS, cols)
                base        == weight_map[<<"w", k>>]
            IN  \A i \in 0..(init.shape[1] - 1), j \in 0..(cols - 1) :
                    dram[base + i * padded_cols + j]
                        = ClaimQuantizeF32(init.data[i * cols + j + 1],
                                           QuantScale(init.data))

\* the same with the quotients that are exactly halfway left out
IsHalfway(v, scale) == (2 * v * scale.den) % scale.num = 0
                          /\ (v * scale.den) % scale.num # 0

RoundsToNearest ==
    Placed =>
        \A k \in 1..WeightCount(model) :
            LET init        == InitializerData(model, <<"w", k>>)
                cols        == init.shape[2]
                padded_cols == ClaimPaddedCols(cfg.TILE_ELEMS, cols)
                base        == weight_map[<<"w", k>>]
            IN  \A i \in 0..(init.shape[1] - 1), j \in 0..(cols - 1) :
                    IsHalfway(init.data[i * cols + j + 1], QuantScale(init.data))
                    \/ dram[base + i * padded_cols + j]
                          = ClaimQuantizeF32(init.data[i * cols + j + 1],
                                             QuantScale(init.data))

(***************************************************************************)
(* C26: for every initializer, the address operand of the LOAD_M or bias   *)
(* LOAD_V that generate_assembly emits for it is the address at which      *)
(* save_initializers_to_dram placed the tensor; layer k's weight and bias  *)
(* are the k-th LOAD_M and the k-th bias LOAD_V of the program.            *)
(***************************************************************************)
LoadAddresses(asm, kind) ==
    LET Keep(line) == IF kind = "bias" THEN IsBiasLoad(line) ELSE IsOp(line, kind)
        lines      == SelectSeq(asm, Keep)
    IN  [k \in 1..Len(lines) |-> lines[k].args[2]]

Scheduled ==
    pc \in {"build_scheduled", "build_assembled", "build_input_saved", "build_done"}

C26_LoadAddressesMatchImage ==
    Scheduled =>
        /\ \A k \in 1..Len(LoadAddresses(asm_instructions, "LOAD_M")) :
              LoadAddresses(asm_instructions, "LOAD_M")[k] = weight_map[<<"w", k>>]
        /\ \A k \in 1..Len(LoadAddresses(asm_instructions, "bias")) :
              LoadAddresses(asm_instructions, "bias")[k] = bias_map[<<"b", k>>]

\* the offsets from the region bases alone, for the bias vectors
BiasOffsetsAgree ==
    Scheduled =>
        \A k \in 1..Len(LoadAddresses(asm_instructions, "bias")) :
            LoadAddresses(asm_instructions, "bias")[k] - CompileDramAddresses.biases
                = bias_map[<<"b", k>>] - cfg.DRAM_ADDR_BIASES

\* the offsets from the region bases alone, for the weights
WeightOffsetsAgree ==
    Scheduled =>
        \A k \in 1..Len(LoadAddresses(asm_instructions, "LOAD_M")) :
            LoadAddresses(asm_instructions, "LOAD_M")[k] - CompileDramAddresses.weights
                = weight_map[<<"w", k>>] - cfg.DRAM_ADDR_WEIGHTS

(***************************************************************************)
(* C27: in every program emitted for a supported graph, every buffer an    *)
(* instruction reads (GEMV's w, x and b, RELU's x, STORE's source) was     *)
(* written by an earlier instruction of the program; the bias folded from  *)
(* an Add is loaded before the GEMV that uses it.                          *)
(***************************************************************************)
ReadSet(line) ==
    CASE line.instr = "GEMV"  -> {line.args[2], line.args[3], line.args[4]}
      [] line.instr = "RELU"  -> {line.args[2]}
      [] line.instr = "STORE" -> {line.args[1]}
      [] OTHER -> {}

WrittenBefore(asm, k) ==
    {asm[j].args[1] : j \in {i \in 1..(k - 1) : asm[i].instr # "STORE"}}

ReadsAreWritten(asm) ==
    \A k \in 1..Len(asm) : ReadSet(asm[k]) \subseteq WrittenBefore(asm, k)

C27_ReadsAfterWrites ==
    (pc = "compile_done" /\ SupportedGraph(model)) => ReadsAreWritten(asm_instructions)

\* the same, for the graphs that start with a Reshape and give every bias
\* to its Gemm node directly
HasOp(m, op) == \E n \in 1..Len(m.node) : m.node[n].op_type = op

ReadsAfterWritesForGemmChains ==
    (pc = "compile_done" /\ SupportedGraph(model)
        /\ HasOp(model, "Reshape") /\ ~HasOp(model, "MatMul"))
        => ReadsAreWritten(asm_instructions)

(***************************************************************************)
(* C28: the buffer allocation is overlap-free for a supported chain: no    *)
(* emitted instruction writes a buffer it also reads, the result of a      *)
(* GEMV or RELU is not overwritten before the next computing instruction   *)
(* or the STORE that follows it, and a loaded buffer is not overwritten    *)
(* before the next GEMV.                                                   *)
(***************************************************************************)
Writes(line) == line.instr # "STORE"

\* no line strictly between j and k writes buffer b
KeptBetween(asm, j, k, b) ==
    \A l \in (j + 1)..(k - 1) : Writes(asm[l]) => asm[l].args[1] # b

\* the first line after j that satisfies the test, or 0
NextLine(asm, j, Test(_)) ==
    IF \E k \in (j + 1)..Len(asm) : Test(asm[k])
    THEN CHOOSE k \in (j + 1)..Len(asm) :
            Test(asm[k]) /\ \A l \in (j + 1)..(k - 1) : ~Test(asm[l])
    ELSE 0

ReadsOwnResult(line) == Computes(line) \/ line.instr = "STORE"

IsGemv(line) == line.instr = "GEMV"

ClaimOverlapFree(asm) ==
    \A j \in 1..Len(asm) :
        /\ Computes(asm[j]) => asm[j].args[1] \notin ReadSet(asm[j])
        /\ Computes(asm[j]) =>
              LET k == NextLine(asm, j, ReadsOwnResult)
              IN  k # 0 => KeptBetween(asm, j, k, asm[j].args[1])
        /\ asm[j].instr \in {"LOAD_M", "LOAD_V"} =>
              LET k == NextLine(asm, j, IsGemv)
              IN  k # 0 => KeptBetween(asm, j, k, asm[j].args[1])

C28_OverlapFree ==
    (pc = "compile_done" /\ SupportedGraph(model)) => ClaimOverlapFree(asm_instructions)

\* a chain of three layers: every pair of buffers has come round again
C28_Witness ==
    /\ pc = "compile_done"
    /\ SupportedGraph(model)
    /\ Dests(asm_instructions, "GEMV") = <<5, 6, 5>>
    /\ Dests(asm_instructions, "RELU") = <<7, 8, 7>>
    /\ Dests(asm_instructions, "LOAD_M") = <<1, 2, 1>>
    /\ \E k \in 1..Len(asm_instructions) : IsInputLoad(asm_instructions[k])

(***************************************************************************)
(* C29: ties are broken by the order of graph.node: whenever the loop      *)
(* schedules a node of an acyclic graph, it is the earliest node of the    *)
(* original list among the ready ones (those not yet scheduled whose       *)
(* producers are all scheduled).                                           *)
(***************************************************************************)
Scheduled29(n) == \E i \in 1..Len(ordered) : ordered[i] = n

ReadyNodes ==
    {n \in 1..Len(graph) :
        /\ ~Scheduled29(n)
        /\ \A p \in 1..Len(graph) : Feeds(graph, p, n) => Scheduled29(p)}

EarliestReady == CHOOSE n \in ReadyNodes : \A o \in ReadyNodes : n <= o

C29_TiesByOriginalOrder ==
    [][(pc = "sort_loop" /\ queue # <<>> /\ Acyclic(graph))
          => ordered' = Append(ordered, EarliestReady)]_vars

\* what the loop does: the nodes wait in the order in which they became
\* ready, and the one that has waited longest is scheduled
QueueHoldsReady ==
    (pc = "sort_loop" /\ Acyclic(graph)) =>
        ReadyNodes = {queue[i] : i \in 1..Len(queue)}

FirstReadyFirst ==
    [][(pc = "sort_loop" /\ queue # <<>>)
          => ordered' = Append(ordered, Head(queue))]_vars

(***************************************************************************)
(* C30: a buffer filled by LOAD_V or LOAD_M is a snapshot of memory taken  *)
(* at load time: a STORE leaves the contents of every buffer as they       *)
(* were, also when it writes addresses inside the range a buffer was       *)
(* loaded from.                                                            *)
(***************************************************************************)
ContentsKept(id) ==
    /\ id \in DOMAIN buffers'
    /\ BufSeq(buffers'[id], memory') = BufSeq(buffers[id], memory)

C30_LoadedBufferIsSnapshot ==
    [][StoreExecuted => \A id \in DOMAIN buffers : ContentsKept(id)]_vars

\* the same, for the buffers whose loaded range the STORE does not touch
StoreTouches(id) ==
    LET f == DecodeStore(instructions[ip])
        b == buffers[id]
    IN  b.view /\ f.addr < b.addr + b.len /\ b.addr < f.addr + f.len

UntouchedBuffersKept ==
    [][StoreExecuted =>
          \A id \in DOMAIN buffers : ~StoreTouches(id) => ContentsKept(id)]_vars

====
